---- MODULE Spec2Model ----
(***************************************************************************)
(* Model of the worldmedia client (src/app.js): the favorites forest, the  *)
(* trash list and the source feed loader (country and category loads).     *)
(*                                                                         *)
(* Strings are sequences of one-character strings, so that trim(),         *)
(* toUpperCase(), toLowerCase() and the regular-expression replacements of *)
(* channelSlug are computed character by character.  A missing             *)
(* (undefined/null) string and the empty string are both falsy in every    *)
(* place the code reads them (`x || ""`, `x && x.trim()`), and are both    *)
(* the empty sequence here.                                                *)
(***************************************************************************)
EXTENDS Integers, Sequences, FiniteSets, TLC

VARIABLES
    favStorage,   \* localStorage["worldmedia-favorites"]
    favNextId,    \* the ids favId() has handed out so far
    favLast,      \* the last favorites operation: its arguments, the forest before it, whether it notified
    trashStorage, \* localStorage["worldmedia-trash"]
    trashLast,    \* the last trash operation: its arguments, the list before it, the keys a set would hold
    fragments,    \* what the server holds under data/channels and data/cat_channels
    loads,        \* every call of loadChannelsForCountry/Category so far, in call order
    selection,    \* what the user selected last, and the load that selection started
    dom,          \* #channels-loading, #channels-empty, #channel-list
    call,         \* the last call of a pure function: its name, its argument, what it returned
    search,       \* window.location.search: its country and channel parameters
    player,       \* #player-modal: hidden or not, and the channel it was opened on
    booted,       \* whether applyUrlState has run for this page
    storageFull   \* whether localStorage.setItem throws (quota reached, storage switched off)

vars == <<favStorage, favNextId, favLast, trashStorage, trashLast, fragments, loads, selection, dom, call,
          search, player, booted, storageFull>>

favVars == <<favStorage, favNextId, favLast>>
loadVars == <<trashStorage, trashLast, fragments, loads, selection, dom>>
pureVars == <<call>>
navVars == <<search, player, booted>>
envVars == <<storageFull>>

\* ---------------------------------------------------------------- bounds

MaxFavIds == 3
MaxLoads == 2
MaxCodeLen == 4
MaxFeedLen == 3
MaxNameLen == 4

\* ---------------------------------------------------------------- strings

LowerChars == <<"a","b","c","d","e","f","g","h","i","j","k","l","m",
                "n","o","p","q","r","s","t","u","v","w","x","y","z">>
UpperChars == <<"A","B","C","D","E","F","G","H","I","J","K","L","M",
                "N","O","P","Q","R","S","T","U","V","W","X","Y","Z">>
Digits == {"0","1","2","3","4","5","6","7","8","9"}
Range(s) == {s[i] : i \in DOMAIN s}

IndexIn(seq, c) == IF \E i \in DOMAIN seq : seq[i] = c
                   THEN CHOOSE i \in DOMAIN seq : seq[i] = c
                   ELSE 0

CharToLower(c) == IF IndexIn(UpperChars, c) # 0 THEN LowerChars[IndexIn(UpperChars, c)] ELSE c
CharToUpper(c) == IF IndexIn(LowerChars, c) # 0 THEN UpperChars[IndexIn(LowerChars, c)] ELSE c

toLowerCase(s) == [i \in DOMAIN s |-> CharToLower(s[i])]
toUpperCase(s) == [i \in DOMAIN s |-> CharToUpper(s[i])]

IsSpace(c) == c \in {" ", "\t", "\n"}

RECURSIVE TrimStart(_)
TrimStart(s) == IF s # <<>> /\ IsSpace(Head(s)) THEN TrimStart(Tail(s)) ELSE s

RECURSIVE TrimEnd(_)
TrimEnd(s) == IF s # <<>> /\ IsSpace(s[Len(s)]) THEN TrimEnd(SubSeq(s, 1, Len(s) - 1)) ELSE s

trim(s) == TrimEnd(TrimStart(s))

\* s.replace(/\s+/g, "-")
RECURSIVE ReplaceSpaceRuns(_)
ReplaceSpaceRuns(s) ==
    IF s = <<>> THEN <<>>
    ELSE IF IsSpace(Head(s))
         THEN <<"-">> \o ReplaceSpaceRuns(TrimStart(s))
         ELSE <<Head(s)>> \o ReplaceSpaceRuns(Tail(s))

\* s.replace(/[^a-z0-9-]/g, "")
IsSlugChar(c) == c \in Range(LowerChars) \cup Digits \cup {"-"}
StripNonSlug(s) == SelectSeq(s, IsSlugChar)

\* s.replace(/-+/g, "-")
RECURSIVE CollapseDashes(_)
CollapseDashes(s) ==
    IF Len(s) < 2 THEN s
    ELSE IF s[1] = "-" /\ s[2] = "-"
         THEN CollapseDashes(Tail(s))
         ELSE <<Head(s)>> \o CollapseDashes(Tail(s))

\* s.replace(/^-|-$/g, "")
StripEdgeDash(s) ==
    LET a == IF s # <<>> /\ Head(s) = "-" THEN Tail(s) ELSE s
    IN  IF a # <<>> /\ a[Len(a)] = "-" THEN SubSeq(a, 1, Len(a) - 1) ELSE a

StrChannel == <<"c","h","a","n","n","e","l">>
StrChannelCap == <<"C","h","a","n","n","e","l">>

\* x || y
Or(x, y) == IF x # <<>> THEN x ELSE y

\* a slug whose runs of dashes are left as they are
channelSlug_NoCollapse(ch) ==
    LET name == toLowerCase(Or(ch.name, StrChannel))
    IN  Or(StripEdgeDash(StripNonSlug(ReplaceSpaceRuns(name))), StrChannel)

channelSlug(ch) ==
    LET name == toLowerCase(Or(ch.name, StrChannel))
    IN  Or(StripEdgeDash(CollapseDashes(StripNonSlug(ReplaceSpaceRuns(name)))), StrChannel)

\* the query string: a parameter that is absent is the empty string here
NoUrl == [country |-> <<>>, channel |-> <<>>]

getUrlState ==
    LET country == toUpperCase(trim(search.country))
        channel == trim(search.channel)
    IN  [country |-> IF Len(country) = 2 THEN country ELSE <<>>, channel |-> channel]

\* the query string setUrlState(state) writes
setUrlState(state) ==
    [country |-> IF Len(state.country) = 2 THEN toUpperCase(state.country) ELSE <<>>,
     channel |-> state.channel]

\* what a lookup gives: the channel found, or null
Found(ch) == [found |-> TRUE, ch |-> ch]
NotFound == [found |-> FALSE, ch |-> [iso |-> <<>>, name |-> <<>>, url |-> <<>>]]

\* channels.find(pred) || null, hits being the positions at which pred holds
Find(channels, hits) ==
    IF hits # {}
    THEN Found(channels[CHOOSE k \in hits : \A m \in hits : k <= m])
    ELSE NotFound

\* a lookup that compares the slug as it was given
findChannelBySlug_Exact(channels, slug) ==
    IF slug = <<>> THEN NotFound
    ELSE Find(channels, {k \in DOMAIN channels : channelSlug(channels[k]) = slug})

findChannelBySlug(channels, slug) ==
    IF slug = <<>> THEN NotFound
    ELSE LET s == toLowerCase(slug)
         IN  Find(channels, {k \in DOMAIN channels : channelSlug(channels[k]) = s})

\* resolveFavoriteChannel(entry), allChannelsCache given
resolveFavoriteChannel(allChannelsCache, entry) ==
    IF entry.type # "channel" THEN NotFound
    ELSE findChannelBySlug(
             SelectSeq(allChannelsCache, LAMBDA ch : toUpperCase(ch.iso) = toUpperCase(entry.iso)),
             entry.slug)

\* ---------------------------------------------------------------- favorites

\* favId(): "f_" + Date.now() + "_" + random; taken as fresh, the n-th call returns n
favId == favNextId + 1

ChannelEntry(id, iso, slug, name) ==
    [id |-> id, type |-> "channel", iso |-> iso, slug |-> slug, name |-> name, children |-> <<>>]

FolderEntry(id, name) ==
    [id |-> id, type |-> "folder", iso |-> <<>>, slug |-> <<>>, name |-> name, children |-> <<>>]

NoEntry == [id |-> 0, type |-> "none", iso |-> <<>>, slug |-> <<>>, name |-> <<>>, children |-> <<>>]

\* What is stored under a key: nothing ("missing"), text that is not JSON
\* ("notjson"), JSON of another shape ("shape": no items list under the
\* favorites key, no list under the trash key), or the value last written ("ok").
Stored(value) == [raw |-> "ok", value |-> value]
NotStored == [raw |-> "missing", value |-> <<>>]

\* a read whose JSON.parse error is not caught
readStorage_NoCatch(stored) ==
    IF stored.raw = "notjson" THEN [threw |-> TRUE, value |-> <<>>]
    ELSE IF stored.raw = "ok" THEN [threw |-> FALSE, value |-> stored.value]
    ELSE [threw |-> FALSE, value |-> <<>>]

\* the body of getFavorites and of getTrash: getItem, JSON.parse when there is
\* text, the list when the parsed value has the shape, [] otherwise and in the
\* catch block
readStorage(stored) ==
    IF stored.raw = "notjson" THEN [threw |-> FALSE, value |-> <<>>]
    ELSE IF stored.raw = "ok" THEN [threw |-> FALSE, value |-> stored.value]
    ELSE [threw |-> FALSE, value |-> <<>>]

\* the body of setFavorites and of setTrash: setItem inside try/catch, then
\* dispatchEvent
writeStorage(stored, value) ==
    [stored |-> IF storageFull THEN stored ELSE Stored(value), threw |-> FALSE, notified |-> TRUE]

getFavorites == readStorage(favStorage).value

setFavorites(items) == writeStorage(favStorage, items)

\* a flatten that does not walk into folders
flattenFavoriteChannels_TopOnly(items) == SelectSeq(items, LAMBDA it : it.type = "channel")

RECURSIVE flattenFavoriteChannels(_)
flattenFavoriteChannels(items) ==
    IF items = <<>> THEN <<>>
    ELSE LET it == Head(items)
         IN  (IF it.type = "channel" THEN <<it>> ELSE <<>>)
             \o (IF it.type = "folder" THEN flattenFavoriteChannels(it.children) ELSE <<>>)
             \o flattenFavoriteChannels(Tail(items))

isChannelInFavorites(iso, slug) ==
    LET flat == flattenFavoriteChannels(getFavorites)
    IN  \E k \in DOMAIN flat :
            /\ toUpperCase(flat[k].iso) = toUpperCase(iso)
            /\ toLowerCase(flat[k].slug) = toLowerCase(slug)

\* arr.findIndex((it) => it.id === id), 0 when there is none
FindIndex(arr, id) ==
    IF \E k \in DOMAIN arr : arr[k].id = id
    THEN CHOOSE k \in DOMAIN arr : arr[k].id = id /\ \A m \in 1..(k - 1) : arr[m].id # id
    ELSE 0

Splice(arr, idx) == SubSeq(arr, 1, idx - 1) \o SubSeq(arr, idx + 1, Len(arr))

\* a removeFrom that searches the given list only
removeFrom_TopOnly(arr, id) ==
    LET idx == FindIndex(arr, id)
    IN  IF idx # 0
        THEN [found |-> TRUE, arr |-> Splice(arr, idx), moved |-> arr[idx]]
        ELSE [found |-> FALSE, arr |-> arr, moved |-> NoEntry]

\* removeFrom(arr): splice the entry out of this list if it is here, else out of
\* the first folder (in list order) whose subtree holds it
RECURSIVE removeFromFolders(_, _, _)
RECURSIVE removeFrom(_, _)
removeFrom(arr, id) ==
    LET idx == FindIndex(arr, id)
    IN  IF idx # 0
        THEN [found |-> TRUE, arr |-> Splice(arr, idx), moved |-> arr[idx]]
        ELSE removeFromFolders(arr, id, 1)

removeFromFolders(arr, id, k) ==
    IF k > Len(arr) THEN [found |-> FALSE, arr |-> arr, moved |-> NoEntry]
    ELSE IF arr[k].type = "folder"
         THEN LET r == removeFrom(arr[k].children, id)
              IN  IF r.found
                  THEN [found |-> TRUE, arr |-> [arr EXCEPT ![k].children = r.arr], moved |-> r.moved]
                  ELSE removeFromFolders(arr, id, k + 1)
         ELSE removeFromFolders(arr, id, k + 1)

\* addToFolder(arr): push moved on the children of the first folder with that
\* id, in depth-first order
RECURSIVE addToFolder(_, _, _, _)
addToFolder(arr, folderId, moved, k) ==
    IF k > Len(arr) THEN [found |-> FALSE, arr |-> arr]
    ELSE IF arr[k].id = folderId /\ arr[k].type = "folder"
         THEN [found |-> TRUE, arr |-> [arr EXCEPT ![k].children = Append(@, moved)]]
         ELSE IF arr[k].type = "folder"
              THEN LET r == addToFolder(arr[k].children, folderId, moved, 1)
                   IN  IF r.found
                       THEN [found |-> TRUE, arr |-> [arr EXCEPT ![k].children = r.arr]]
                       ELSE addToFolder(arr, folderId, moved, k + 1)
              ELSE addToFolder(arr, folderId, moved, k + 1)

\* flatWithPath(items, pathPrefix): depth-first list of {item, path}; a path is
\* the list of positions from the top level down ("items"/"children" keys left out)
RECURSIVE flatWithPath(_, _, _)
flatWithPath(items, pathPrefix, k) ==
    IF k > Len(items) THEN <<>>
    ELSE LET path == Append(pathPrefix, k)
         IN  <<[item |-> items[k], path |-> path]>>
             \o (IF items[k].type = "folder" THEN flatWithPath(items[k].children, path, 1) ELSE <<>>)
             \o flatWithPath(items, pathPrefix, k + 1)

\* getParent(path): the list an entry sits in, named by the path leading to it
getParent(path) == SubSeq(path, 1, Len(path) - 1)

\* an exchange that leaves the children where they were: the two entries trade
\* places, each taking over the children found at its new position
RECURSIVE swapIn_HeadersOnly(_, _, _, _)
swapIn_HeadersOnly(items, parentPath, i, j) ==
    IF parentPath = <<>>
    THEN [items EXCEPT ![i] = [items[j] EXCEPT !.children = items[i].children],
                       ![j] = [items[i] EXCEPT !.children = items[j].children]]
    ELSE [items EXCEPT ![Head(parentPath)].children = swapIn_HeadersOnly(@, Tail(parentPath), i, j)]

\* tmp = aArr[i]; aArr[i] = aArr[j]; aArr[j] = tmp, in the list at parentPath
RECURSIVE swapIn(_, _, _, _)
swapIn(items, parentPath, i, j) ==
    IF parentPath = <<>>
    THEN [items EXCEPT ![i] = items[j], ![j] = items[i]]
    ELSE [items EXCEPT ![Head(parentPath)].children = swapIn(@, Tail(parentPath), i, j)]

\* Each operation yields the items it hands to setFavorites, or saved = FALSE
\* when it returns without calling setFavorites.
Saved(items) == [saved |-> TRUE, items |-> items]
NotSaved == [saved |-> FALSE, items |-> <<>>]

addChannelToFavorites(ch) ==
    LET iso == toUpperCase(ch.iso)
        slug == channelSlug(ch)
    IN  IF isChannelInFavorites(iso, slug) THEN NotSaved
        ELSE Saved(Append(getFavorites, ChannelEntry(favId, iso, slug, Or(ch.name, StrChannelCap))))

removeFavoriteById(id) ==
    LET r == removeFrom(getFavorites, id)
    IN  IF r.found THEN Saved(r.arr) ELSE NotSaved

StrNewFolder == <<"N","e","w"," ","f","o","l","d","e","r">>

addFolder(name) == Saved(Append(getFavorites, FolderEntry(favId, Or(name, StrNewFolder))))

\* a moveFavoriteToFolder that loses the entry when the folder is not found
moveFavoriteToFolder_Drop(itemId, folderId) ==
    LET r == removeFrom(getFavorites, itemId)
    IN  IF ~r.found THEN NotSaved
        ELSE LET a == addToFolder(r.arr, folderId, r.moved, 1)
             IN  IF a.found THEN Saved(a.arr) ELSE Saved(r.arr)

\* a moveFavoriteToFolder that inserts into the forest the entry is still in
moveFavoriteToFolder_NoRemove(itemId, folderId) ==
    LET r == removeFrom(getFavorites, itemId)
    IN  IF ~r.found THEN NotSaved
        ELSE LET a == addToFolder(getFavorites, folderId, r.moved, 1)
             IN  IF a.found THEN Saved(a.arr) ELSE Saved(Append(r.arr, r.moved))

moveFavoriteToFolder(itemId, folderId) ==
    LET r == removeFrom(getFavorites, itemId)
    IN  IF ~r.found THEN NotSaved
        ELSE LET a == addToFolder(r.arr, folderId, r.moved, 1)
             IN  IF a.found THEN Saved(a.arr) ELSE Saved(Append(r.arr, r.moved))

moveFavoriteToTopLevel(itemId) ==
    LET r == removeFrom(getFavorites, itemId)
    IN  IF r.found THEN Saved(Append(r.arr, r.moved)) ELSE NotSaved

\* a moveFavoriteUpDown that, across parent lists, moves the entry out to the top level
moveFavoriteUpDown_Reparent(itemId, dir) ==
    LET flat == flatWithPath(getFavorites, <<>>, 1)
        idx == IF \E k \in DOMAIN flat : flat[k].item.id = itemId
               THEN CHOOSE k \in DOMAIN flat :
                        flat[k].item.id = itemId /\ \A m \in 1..(k - 1) : flat[m].item.id # itemId
               ELSE 0
        targetIdx == IF dir = "up" THEN idx - 1 ELSE idx + 1
    IN  IF idx = 0 THEN NotSaved
        ELSE IF targetIdx < 1 \/ targetIdx > Len(flat) THEN NotSaved
        ELSE LET a == flat[idx]
                 b == flat[targetIdx]
             IN  IF getParent(a.path) # getParent(b.path) THEN moveFavoriteToTopLevel(itemId)
                 ELSE Saved(swapIn(getFavorites, getParent(a.path),
                                   a.path[Len(a.path)], b.path[Len(b.path)]))

moveFavoriteUpDown(itemId, dir) ==
    LET flat == flatWithPath(getFavorites, <<>>, 1)
        idx == IF \E k \in DOMAIN flat : flat[k].item.id = itemId
               THEN CHOOSE k \in DOMAIN flat :
                        flat[k].item.id = itemId /\ \A m \in 1..(k - 1) : flat[m].item.id # itemId
               ELSE 0
        targetIdx == IF dir = "up" THEN idx - 1 ELSE idx + 1
    IN  IF idx = 0 THEN NotSaved
        ELSE IF targetIdx < 1 \/ targetIdx > Len(flat) THEN NotSaved
        ELSE LET a == flat[idx]
                 b == flat[targetIdx]
             IN  IF getParent(a.path) # getParent(b.path) THEN NotSaved
                 ELSE Saved(swapIn(getFavorites, getParent(a.path),
                                   a.path[Len(a.path)], b.path[Len(b.path)]))

\* ---------------------------------------------------------------- favorites: inputs and actions

StrFR == <<"F","R">>
StrTF1 == <<"T","F","1">>

\* channels handed to addChannelToFavorites: two spellings of one country code,
\* two names with the same slug and one with another slug
FavIsos == {StrFR, <<"f","r">>}
FavNames == {StrTF1, <<"t","f","1","+">>, <<"A"," ","B">>}
FavChannels == {[iso |-> i, name |-> n] : i \in FavIsos, n \in FavNames}
FolderNames == {<<"F">>}
FavIdArgs == 1..MaxFavIds
Directions == {"up", "down"}

NoChannel == [iso |-> <<>>, name |-> <<>>]

\* the handler got as far as its write: the read did not throw
StoreWritten(stored, r) == ~readStorage(stored).threw /\ r.saved

\* a handler that reads the favorites and, when r.saved, writes them: an
\* exception that escapes the read or the write ends the handler there
FavOp(op, id, folderId, dir, ch, r, usedId) ==
    /\ favStorage' = IF StoreWritten(favStorage, r) THEN setFavorites(r.items).stored ELSE favStorage
    /\ favNextId' = IF usedId THEN favNextId + 1 ELSE favNextId
    /\ favLast' = [op |-> op, id |-> id, folderId |-> folderId, dir |-> dir, ch |-> ch,
                   before |-> getFavorites,
                   notified |-> StoreWritten(favStorage, r) /\ setFavorites(r.items).notified,
                   raw |-> favStorage.raw, full |-> storageFull,
                   threw |-> \/ readStorage(favStorage).threw
                             \/ StoreWritten(favStorage, r) /\ setFavorites(r.items).threw]
    /\ UNCHANGED <<loadVars, pureVars, envVars, navVars>>

FavAdd ==
    \E ch \in FavChannels :
        LET r == addChannelToFavorites(ch)
        IN  /\ r.saved => favNextId < MaxFavIds
            /\ FavOp("add", 0, 0, "", ch, r, r.saved)

FavRemove ==
    \E id \in FavIdArgs :
        FavOp("remove", id, 0, "", NoChannel, removeFavoriteById(id), FALSE)

FavAddFolder ==
    \E name \in FolderNames :
        /\ favNextId < MaxFavIds
        /\ FavOp("addFolder", 0, 0, "", NoChannel, addFolder(name), TRUE)

FavMoveToFolder ==
    \E id \in FavIdArgs, folderId \in FavIdArgs :
        FavOp("moveToFolder", id, folderId, "", NoChannel, moveFavoriteToFolder(id, folderId), FALSE)

FavMoveToTopLevel ==
    \E id \in FavIdArgs :
        FavOp("moveToTopLevel", id, 0, "", NoChannel, moveFavoriteToTopLevel(id), FALSE)

FavMoveUpDown ==
    \E id \in FavIdArgs, dir \in Directions :
        FavOp("moveUpDown", id, 0, dir, NoChannel, moveFavoriteUpDown(id, dir), FALSE)

NoFavOp == [op |-> "none", id |-> 0, folderId |-> 0, dir |-> "", ch |-> NoChannel,
            before |-> <<>>, notified |-> FALSE, raw |-> "missing", full |-> FALSE, threw |-> FALSE]

FavIdle ==
    /\ favStorage = NotStored
    /\ favNextId = 0
    /\ favLast = NoFavOp

NoCall == [fn |-> "none", arg |-> <<>>, result |-> <<>>]
PureIdle == call = NoCall

PlayerClosed == [open |-> FALSE, ch |-> NotFound.ch, error |-> FALSE]
NavIdle == search = NoUrl /\ player = PlayerClosed /\ booted = TRUE
EnvIdle == storageFull = FALSE

NoSelection == [kind |-> "none", name |-> <<>>, load |-> 0]
DomAtStart == [loadingHidden |-> TRUE, emptyHidden |-> TRUE, listHidden |-> TRUE, list |-> <<>>]

NoTrashOp == [op |-> "none", iso |-> <<>>, slug |-> <<>>, before |-> <<>>, keys |-> {},
              notified |-> FALSE, raw |-> "missing", full |-> FALSE, threw |-> FALSE]

LoadIdle ==
    /\ trashStorage = NotStored
    /\ trashLast = NoTrashOp
    /\ fragments = <<>>
    /\ loads = <<>>
    /\ selection = NoSelection
    /\ dom = DomAtStart

InitFav == FavIdle /\ LoadIdle /\ PureIdle /\ NavIdle /\ EnvIdle

NextFav ==
    \/ FavAdd
    \/ FavRemove
    \/ FavAddFolder
    \/ FavMoveToFolder
    \/ FavMoveToTopLevel
    \/ FavMoveUpDown

SpecFav == InitFav /\ [][NextFav]_vars

\* ---------------------------------------------------------------- trash

getTrash == readStorage(trashStorage).value

setTrash(list) == writeStorage(trashStorage, list)

isChannelInTrash(iso, slug) ==
    \E k \in DOMAIN getTrash :
        /\ toUpperCase(getTrash[k].iso) = toUpperCase(iso)
        /\ toLowerCase(getTrash[k].slug) = toLowerCase(slug)

\* an add that does not look for the key first
addChannelToTrash_NoCheck(ch) ==
    Saved(Append(getTrash, [iso |-> toUpperCase(ch.iso), slug |-> channelSlug(ch),
                            name |-> Or(ch.name, StrChannelCap)]))

\* the list each operation hands to setTrash, or saved = FALSE when it returns before
addChannelToTrash(ch) ==
    LET iso == toUpperCase(ch.iso)
        slug == channelSlug(ch)
    IN  IF isChannelInTrash(iso, slug) THEN NotSaved
        ELSE Saved(Append(getTrash, [iso |-> iso, slug |-> slug, name |-> Or(ch.name, StrChannelCap)]))

removeChannelFromTrash(iso, slug) ==
    Saved(SelectSeq(getTrash, LAMBDA e : \/ toUpperCase(e.iso) # toUpperCase(iso)
                                         \/ toLowerCase(e.slug) # toLowerCase(slug)))

emptyTrash == Saved(<<>>)

\* ---------------------------------------------------------------- source feed loader

UNKNOWN_COUNTRY_ISO == <<"X","X">>

\* the source names with the first two exchanged
CHANNEL_SOURCE_NAMES_Swapped ==
    <<"free-tv-iptv", "iptv-org", "iprd", "famelack-channels",
      "m3u-radio-music-playlists", "insecam", "windy">>

CHANNEL_SOURCE_NAMES ==
    <<"iptv-org", "free-tv-iptv", "iprd", "famelack-channels",
      "m3u-radio-music-playlists", "insecam", "windy">>

StrFRA == <<"F","R","A">>

ISO3_TO_ISO2_FALLBACK ==
    <<<<StrFRA, StrFR>>, <<<<"P","R","T">>, <<"P","T">>>>, <<<<"N","O","R">>, <<"N","O">>>>,
      <<<<"D","E","U">>, <<"D","E">>>>, <<<<"G","B","R">>, <<"G","B">>>>, <<<<"U","S","A">>, <<"U","S">>>>>>

ISO2_TO_ISO3 ==
    <<<<StrFR, StrFRA>>, <<<<"P","T">>, <<"P","R","T">>>>, <<<<"N","O">>, <<"N","O","R">>>>,
      <<<<"D","E">>, <<"D","E","U">>>>, <<<<"G","B">>, <<"G","B","R">>>>, <<<<"U","S">>, <<"U","S","A">>>>>>

\* table[key], the empty string (falsy) when the table has no such key
Lookup(table, key) ==
    IF \E k \in DOMAIN table : table[k][1] = key
    THEN table[CHOOSE k \in DOMAIN table : table[k][1] = key][2]
    ELSE <<>>

\* a resolver that knows no alpha-2/alpha-3 pair
getChannelLoadCodes_NoTable(countryCode) ==
    LET code == toUpperCase(trim(countryCode))
    IN  IF code = <<>> \/ (Len(code) # 2 /\ Len(code) # 3) THEN <<>> ELSE <<code>>

getChannelLoadCodes(countryCode) ==
    LET code == toUpperCase(trim(countryCode))
        iso2 == IF Len(code) = 2 THEN code ELSE Or(Lookup(ISO3_TO_ISO2_FALLBACK, code), code)
        iso3 == IF Len(code) = 3 THEN code ELSE Lookup(ISO2_TO_ISO3, code)
    IN  IF code = <<>> \/ (Len(code) # 2 /\ Len(code) # 3) THEN <<>>
        ELSE IF iso3 # <<>> /\ iso3 # iso2 THEN <<iso2, iso3>> ELSE <<iso2>>

\* the paths a country load fetches, in fetch order: for each code, for each source name
CountryPaths(codes) ==
    [k \in 1..(Len(codes) * Len(CHANNEL_SOURCE_NAMES)) |->
        <<"channels", codes[((k - 1) \div Len(CHANNEL_SOURCE_NAMES)) + 1],
          CHANNEL_SOURCE_NAMES[((k - 1) % Len(CHANNEL_SOURCE_NAMES)) + 1]>>]

\* the paths a category load fetches: one per source name
CategoryPaths(categoryName) ==
    [k \in DOMAIN CHANNEL_SOURCE_NAMES |-> <<"cat_channels", categoryName, CHANNEL_SOURCE_NAMES[k]>>]

\* what fetch(path) and res.json() give: a path the server does not hold answers non-OK
NotOk == [kind |-> "notok", channels |-> <<>>]
fetch(path) == IF path \in DOMAIN fragments THEN fragments[path] ELSE NotOk

\* an accumulation that never looks at seenUrls
Accumulate_NoDedup(allChannels, seenUrls, list) ==
    [allChannels |-> allChannels \o list, seenUrls |-> seenUrls \cup {trim(list[k].url) : k \in DOMAIN list}]

\* an accumulation that takes the empty url for a url like any other
RECURSIVE Accumulate_EmptyIsUrl(_, _, _)
Accumulate_EmptyIsUrl(allChannels, seenUrls, list) ==
    IF list = <<>> THEN [allChannels |-> allChannels, seenUrls |-> seenUrls]
    ELSE LET ch == Head(list)
             url == trim(ch.url)
         IN  IF url \notin seenUrls
             THEN Accumulate_EmptyIsUrl(Append(allChannels, ch), seenUrls \cup {url}, Tail(list))
             ELSE Accumulate_EmptyIsUrl(allChannels, seenUrls, Tail(list))

\* an accumulation that compares the url strings as they are
RECURSIVE Accumulate_ExactUrl(_, _, _)
Accumulate_ExactUrl(allChannels, seenUrls, list) ==
    IF list = <<>> THEN [allChannels |-> allChannels, seenUrls |-> seenUrls]
    ELSE LET ch == Head(list)
             url == ch.url
         IN  IF trim(url) # <<>> /\ url \notin seenUrls
             THEN Accumulate_ExactUrl(Append(allChannels, ch), seenUrls \cup {url}, Tail(list))
             ELSE IF trim(url) = <<>>
                  THEN Accumulate_ExactUrl(Append(allChannels, ch), seenUrls, Tail(list))
                  ELSE Accumulate_ExactUrl(allChannels, seenUrls, Tail(list))

\* for (const ch of list): keep ch when its trimmed url is new or empty
RECURSIVE Accumulate(_, _, _)
Accumulate(allChannels, seenUrls, list) ==
    IF list = <<>> THEN [allChannels |-> allChannels, seenUrls |-> seenUrls]
    ELSE LET ch == Head(list)
             url == trim(ch.url)
         IN  IF url # <<>> /\ url \notin seenUrls
             THEN Accumulate(Append(allChannels, ch), seenUrls \cup {url}, Tail(list))
             ELSE IF url = <<>>
                  THEN Accumulate(Append(allChannels, ch), seenUrls, Tail(list))
                  ELSE Accumulate(allChannels, seenUrls, Tail(list))

\* a load that forgets the trash filter
FilterTrash_Unfiltered(allChannels) == allChannels

\* allChannels.filter((ch) => !isChannelInTrash(...))
FilterTrash(allChannels) ==
    SelectSeq(allChannels, LAMBDA ch : ~isChannelInTrash(toUpperCase(ch.iso), channelSlug(ch)))

NewLoad(kind, name, paths, cb) ==
    [kind |-> kind, name |-> name, paths |-> paths, pos |-> 1, allChannels |-> <<>>,
     seenUrls |-> {}, cb |-> cb, status |-> "awaiting", outcome |-> "", result |-> <<>>,
     cbRun |-> FALSE, fetched |-> <<>>, stale |-> FALSE, cbSlug |-> <<>>, cbFound |-> NotFound]

\* an ending that lacks the return taken for an empty list
Finish_NoEmptyReturn(id, l, d) ==
    LET channels == FilterTrash(l.allChannels)
    IN  [load |-> [l EXCEPT !.status = "done", !.outcome = "list", !.result = channels,
                            !.cbRun = l.cb,
                            !.cbFound = IF l.cb THEN findChannelBySlug(channels, l.cbSlug)
                                        ELSE NotFound],
         dom |-> [d EXCEPT !.loadingHidden = TRUE, !.listHidden = FALSE,
                           !.list = @ \o [k \in DOMAIN channels |-> [load |-> id, ch |-> channels[k]]]]]

\* the lines from the end of the fetch loops to the return: filter by trash,
\* hide the loading indicator, show the empty state or append the rows and run
\* the callback
Finish(id, l, d) ==
    LET channels == FilterTrash(l.allChannels)
    IN  IF channels = <<>>
        THEN [load |-> [l EXCEPT !.status = "done", !.outcome = "empty"],
              dom |-> [d EXCEPT !.loadingHidden = TRUE, !.emptyHidden = FALSE]]
        ELSE [load |-> [l EXCEPT !.status = "done", !.outcome = "list", !.result = channels,
                                 !.cbRun = l.cb,
                                 !.cbFound = IF l.cb THEN findChannelBySlug(channels, l.cbSlug)
                                             ELSE NotFound],
              dom |-> [d EXCEPT !.loadingHidden = TRUE, !.listHidden = FALSE,
                                !.list = @ \o [k \in DOMAIN channels |-> [load |-> id, ch |-> channels[k]]]]]

\* the catch block
Caught(l, d) ==
    [load |-> [l EXCEPT !.status = "done", !.outcome = "error"],
     dom |-> [d EXCEPT !.loadingHidden = TRUE, !.emptyHidden = FALSE]]

\* the lines before the first fetch
Prelude(d) == [d EXCEPT !.loadingHidden = FALSE, !.emptyHidden = TRUE, !.listHidden = TRUE, !.list = <<>>]

\* loadChannelsForCountry up to its first await (or its return when there is no code)
StartCountryLoad(countryCode, cb) ==
    LET codesToTry == getChannelLoadCodes(countryCode)
        l == NewLoad("country", countryCode, CountryPaths(codesToTry), cb)
    IN  IF codesToTry = <<>>
        THEN [load |-> [l EXCEPT !.status = "done", !.outcome = "nocodes"],
              dom |-> [Prelude(dom) EXCEPT !.loadingHidden = TRUE, !.emptyHidden = FALSE]]
        ELSE [load |-> l, dom |-> Prelude(dom)]

\* loadChannelsForCategory up to its first await
StartCategoryLoad(categoryName, cb) ==
    [load |-> NewLoad("category", categoryName, CategoryPaths(categoryName), cb), dom |-> Prelude(dom)]

\* a fetch loop that takes a non-OK answer for a failure
Resume_NotOkThrows(id) ==
    LET l == loads[id]
        f == fetch(l.paths[l.pos])
        seen == [l EXCEPT !.fetched = Append(@, f)]
    IN  IF f.kind \in {"notok", "neterr", "badjson", "notiterable"}
    THEN Caught(seen, dom)
    ELSE LET acc == Accumulate(l.allChannels, l.seenUrls, f.channels)
                 merged == [seen EXCEPT !.allChannels = acc.allChannels, !.seenUrls = acc.seenUrls]
             IN  IF l.pos = Len(l.paths) THEN Finish(id, merged, dom)
                 ELSE [load |-> [merged EXCEPT !.pos = l.pos + 1], dom |-> dom]

\* one turn of the fetch loop of load id: the awaited fetch and res.json() settle,
\* the fragment is merged, and the load either awaits the next fetch or finishes
Resume(id) ==
    LET l == loads[id]
        f == fetch(l.paths[l.pos])
        seen == [l EXCEPT !.fetched = Append(@, f)]
    IN  IF f.kind = "notok"
        THEN IF l.pos = Len(l.paths) THEN Finish(id, seen, dom)
             ELSE [load |-> [seen EXCEPT !.pos = l.pos + 1], dom |-> dom]
        ELSE IF f.kind \in {"neterr", "badjson", "notiterable"}
        THEN Caught(seen, dom)
        ELSE LET acc == Accumulate(l.allChannels, l.seenUrls, f.channels)
                 merged == [seen EXCEPT !.allChannels = acc.allChannels, !.seenUrls = acc.seenUrls]
             IN  IF l.pos = Len(l.paths) THEN Finish(id, merged, dom)
                 ELSE [load |-> [merged EXCEPT !.pos = l.pos + 1], dom |-> dom]

\* the onChannelsLoaded callbacks of applyUrlState and of the Play button of a
\* favorites row: look the slug up in the list handed over, open the player
\* on the channel found
WithCallback(r, slug) == [r EXCEPT !.load.cbSlug = slug]

\* openPlayerModal(channel): the modal is shown; the query string is written
\* only past the return taken for a channel with no stream url, and only when
\* a country of the map is selected
openPlayerModal(channel) ==
    [player |-> [open |-> TRUE, ch |-> channel, error |-> trim(channel.url) = <<>>],
     url |-> IF trim(channel.url) = <<>> THEN search
             ELSE IF selection.kind = "country"
                  THEN setUrlState([country |-> selection.name, channel |-> channelSlug(channel)])
                  ELSE search]

closePlayerModal ==
    [player |-> PlayerClosed,
     url |-> IF selection.kind = "country"
             THEN setUrlState([country |-> selection.name, channel |-> <<>>])
             ELSE search]

\* the player and the query string left as they are
NoNav == [player |-> player, url |-> search]

\* dispatchEvent(...) in setTrash is window.dispatchEvent: the event's target is
\* window.  A listener runs when it sits on the target or on an ancestor of the
\* target in the event path (document's only ancestor is window).
TrashChangedTarget == "window"
RefreshListenerTarget == "document"
OnEventPath(listenerTarget, target) ==
    \/ listenerTarget = target
    \/ listenerTarget = "window" /\ target = "document"

\* the load refreshChannelsAfterTrashChange starts, when it starts one
refreshChannelsAfterTrashChange ==
    IF selection.kind = "category" THEN StartCategoryLoad(selection.name, FALSE)
    ELSE IF getUrlState.country # <<>> THEN StartCountryLoad(getUrlState.country, FALSE)
    ELSE IF selection.kind = "country" THEN StartCountryLoad(selection.name, FALSE)
    ELSE StartCountryLoad(UNKNOWN_COUNTRY_ISO, FALSE)

\* ---------------------------------------------------------------- loader: inputs and actions

Channel(iso, name, url) == [iso |-> iso, name |-> name, url |-> url]

ChTF1 == Channel(StrFR, StrTF1, <<"a">>)
ChTF1HD == Channel(StrFR, <<"T","F","1"," ","H","D">>, <<"a">>)
ChArte == Channel(StrFR, <<"A","r","t","e">>, <<>>)
ChB == Channel(StrFR, <<"B">>, <<"b">>)
ChSpaceA == Channel(<<"f","r">>, <<"t","f","1">>, <<" ","a">>)
ChBlank == Channel(StrFR, <<"N">>, <<" ">>)
ChFRA == Channel(StrFR, <<"T","F","1"," ","b","i","s">>, <<"a">>)
ChB2 == Channel(StrFR, <<"B","2">>, <<"b">>)
ChC == Channel(StrFR, <<"C">>, <<"c">>)
ChCam == Channel(UNKNOWN_COUNTRY_ISO, <<"C","a","m">>, <<"x">>)
\* what iterating a string gives: one-character strings, which have no iso, name or url
ChJunk == Channel(<<>>, <<>>, <<>>)

Ok(list) == [kind |-> "ok", channels |-> list]
\* the body has no channels field (or a falsy one)
Absent == [kind |-> "absent", channels |-> <<>>]
\* the channels field is a string
StringField == [kind |-> "string", channels |-> <<ChJunk>>]
\* the channels field is an object or a number
NotIterable == [kind |-> "notiterable", channels |-> <<>>]
NetErr == [kind |-> "neterr", channels |-> <<>>]
BadJson == [kind |-> "badjson", channels |-> <<>>]

FirstFragments == {Ok(<<ChTF1, ChArte>>), Ok(<<ChSpaceA, ChBlank, ChBlank>>)}
SecondFragments == {Ok(<<ChTF1HD, ChArte, ChB>>), NotOk, NetErr, BadJson, Absent, NotIterable, StringField}

StrNews == <<"n","e","w","s">>

\* the files of one server: the first two sources vary, for the country FR and
\* the category news alike; FRA, XX and the last source of news are fixed
World(first, second) ==
    (<<"channels", StrFR, "iptv-org">> :> first)
    @@ (<<"channels", StrFR, "free-tv-iptv">> :> second)
    @@ (<<"channels", StrFRA, "iptv-org">> :> Ok(<<ChFRA, ChB2, ChC>>))
    @@ (<<"channels", UNKNOWN_COUNTRY_ISO, "insecam">> :> Ok(<<ChCam>>))
    @@ (<<"cat_channels", StrNews, "iptv-org">> :> first)
    @@ (<<"cat_channels", StrNews, "free-tv-iptv">> :> second)
    @@ (<<"cat_channels", StrNews, "windy">> :> Ok(<<ChFRA, ChB2, ChC>>))

Worlds == {World(a, b) : a \in FirstFragments, b \in SecondFragments}

MapCountries == {StrFR}
Categories == {StrNews}
TrashChannels == {ChTF1, ChSpaceA}
CallbackSlugs == {<<"T","F","1">>}

CanStartLoad == Len(loads) < MaxLoads

\* a load is marked stale when another load starts while it awaits a fetch
\* (bookkeeping for the properties; the code keeps no such mark)
MarkStale(ls) == [k \in DOMAIN ls |-> IF ls[k].status = "awaiting" THEN [ls[k] EXCEPT !.stale = TRUE] ELSE ls[k]]

StartedBy(kind, name, r, u) ==
    /\ loads' = Append(MarkStale(loads), r.load)
    /\ dom' = r.dom
    /\ selection' = [kind |-> kind, name |-> name, load |-> Len(loads) + 1]
    /\ search' = u
    /\ UNCHANGED <<trashStorage, trashLast, fragments, favVars, pureVars, envVars, player>>

Started(kind, name, r, u) == StartedBy(kind, name, r, u) /\ UNCHANGED booted

\* click on a country of the map: selectCountry(el, true)
ClickCountry ==
    \E iso2 \in MapCountries :
        /\ booted
        /\ IF selection.kind = "country" /\ selection.name = iso2
           THEN /\ selection' = NoSelection
                /\ search' = setUrlState(NoUrl)
                /\ UNCHANGED <<loads, dom, trashStorage, trashLast, fragments, favVars, pureVars, envVars, player, booted>>
           ELSE /\ CanStartLoad
                /\ Started("country", iso2, StartCountryLoad(iso2, FALSE),
                           setUrlState([country |-> iso2, channel |-> <<>>]))

\* selectByIso2(iso2, onChannelsLoaded): selectCountry(el, false, onChannelsLoaded)
SelectByIso2 ==
    \E iso2 \in MapCountries, slug \in CallbackSlugs :
        /\ CanStartLoad
        /\ Started("country", iso2, WithCallback(StartCountryLoad(iso2, TRUE), slug),
                   setUrlState([country |-> iso2, channel |-> <<>>]))

\* selectUnknown(onChannelsLoaded), with or without a callback
SelectUnknown ==
    \E cb \in BOOLEAN, slug \in CallbackSlugs :
        /\ CanStartLoad
        /\ Started("unknown", UNKNOWN_COUNTRY_ISO,
                   WithCallback(StartCountryLoad(UNKNOWN_COUNTRY_ISO, cb), IF cb THEN slug ELSE <<>>),
                   setUrlState([country |-> UNKNOWN_COUNTRY_ISO, channel |-> <<>>]))

\* click on a category: loadChannelsForCategory(name)
SelectCategory ==
    \E name \in Categories :
        /\ CanStartLoad
        /\ Started("category", name, StartCategoryLoad(name, FALSE), search)

\* a fetch of a load that is awaiting one settles
FetchSettles ==
    \E id \in DOMAIN loads :
        /\ loads[id].status = "awaiting"
        /\ LET r == Resume(id)
               n == IF r.load.cbRun /\ r.load.cbFound.found
                    THEN openPlayerModal(r.load.cbFound.ch) ELSE NoNav
           IN  /\ loads' = [loads EXCEPT ![id] = r.load]
               /\ dom' = r.dom
               /\ player' = n.player
               /\ search' = n.url
        /\ UNCHANGED <<selection, trashStorage, trashLast, fragments, favVars, pureVars, envVars, booted>>

\* click on a row of the channel list: openPlayerModal(ch)
OpenPlayer ==
    \E k \in DOMAIN dom.list :
        /\ ~dom.listHidden
        /\ ~player.open
        /\ player' = openPlayerModal(dom.list[k].ch).player
        /\ search' = openPlayerModal(dom.list[k].ch).url
        /\ UNCHANGED <<loadVars, favVars, pureVars, envVars, booted>>

\* the close button, the backdrop or Escape: closePlayerModal()
ClosePlayer ==
    /\ player.open
    /\ player' = closePlayerModal.player
    /\ search' = closePlayerModal.url
    /\ UNCHANGED <<loadVars, favVars, pureVars, envVars, booted>>

\* a handler that changes the trash: setTrash stores the list and dispatches
\* worldmedia-trash-changed; n is what the rest of the handler does to the player
TrashOp(op, iso, slug, r, n) ==
    /\ trashStorage' = IF StoreWritten(trashStorage, r) THEN setTrash(r.items).stored ELSE trashStorage
    /\ trashLast' = [op |-> op, iso |-> iso, slug |-> slug, before |-> getTrash,
                     keys |-> CASE op = "add" -> trashLast.keys \cup {<<toUpperCase(iso), toLowerCase(slug)>>}
                                [] op = "remove" -> trashLast.keys \ {<<toUpperCase(iso), toLowerCase(slug)>>}
                                [] OTHER -> {},
                     notified |-> StoreWritten(trashStorage, r) /\ setTrash(r.items).notified,
                     raw |-> trashStorage.raw, full |-> storageFull,
                     threw |-> \/ readStorage(trashStorage).threw
                               \/ StoreWritten(trashStorage, r) /\ setTrash(r.items).threw]
    /\ IF r.saved /\ OnEventPath(RefreshListenerTarget, TrashChangedTarget) /\ selection.kind # "none"
       THEN /\ CanStartLoad
            /\ loads' = Append(MarkStale(loads), refreshChannelsAfterTrashChange.load)
            /\ dom' = refreshChannelsAfterTrashChange.dom
            /\ selection' = [selection EXCEPT !.load = Len(loads) + 1]
       ELSE UNCHANGED <<loads, selection, dom>>
    /\ player' = n.player
    /\ search' = n.url
    /\ UNCHANGED <<fragments, favVars, pureVars, envVars, booted>>

\* the trash button of the player, wired past the return taken for a channel
\* with no stream url: out of the trash when the channel is in it, else into
\* the trash and the player closed
TrashAdd ==
    /\ player.open
    /\ trim(player.ch.url) # <<>>
    /\ player.ch \in TrashChannels
    /\ IF isChannelInTrash(toUpperCase(player.ch.iso), channelSlug(player.ch))
       THEN TrashOp("remove", toUpperCase(player.ch.iso), channelSlug(player.ch),
                    removeChannelFromTrash(toUpperCase(player.ch.iso), channelSlug(player.ch)), NoNav)
       ELSE TrashOp("add", player.ch.iso, channelSlug(player.ch), addChannelToTrash(player.ch),
                    closePlayerModal)

\* Restore in the trash panel
TrashRestore ==
    \E k \in DOMAIN getTrash :
        TrashOp("remove", getTrash[k].iso, getTrash[k].slug,
                removeChannelFromTrash(getTrash[k].iso, getTrash[k].slug), NoNav)

TrashEmpty == TrashOp("empty", <<>>, <<>>, emptyTrash, NoNav)

\* the query strings a page is opened with
StrZZ == <<"Z","Z">>
InitialCountries == {<<>>, StrFR, <<" ","f","r">>, StrFRA, UNKNOWN_COUNTRY_ISO, StrZZ}
InitialChannels == {<<>>, <<"t","f","1">>, <<"T","F","1"," ">>, <<"c","a","m">>, <<"x">>}
InitialSearches == {[country |-> c, channel |-> ch] : c \in InitialCountries, ch \in InitialChannels}

\* selectByIso2(iso2, onChannelsLoaded): the country of the map with that
\* data-iso2 is selected without toggling, when the map has one
selectByIso2(iso2, slug) ==
    LET norm == toUpperCase(trim(iso2))
    IN  IF Len(norm) = 2 /\ norm \in MapCountries
        THEN /\ CanStartLoad
             /\ StartedBy("country", norm, WithCallback(StartCountryLoad(norm, TRUE), slug),
                          setUrlState([country |-> norm, channel |-> <<>>]))
             /\ booted' = TRUE
        ELSE /\ booted' = TRUE
             /\ UNCHANGED <<favVars, loadVars, pureVars, envVars, search, player>>

\* applyUrlState(selectByIso2), run once the map is rendered
ApplyUrlState ==
    /\ ~booted
    /\ LET country == getUrlState.country
           channel == getUrlState.channel
       IN  IF country = <<>>
           THEN /\ booted' = TRUE
                /\ UNCHANGED <<favVars, loadVars, pureVars, envVars, search, player>>
           ELSE IF country = UNKNOWN_COUNTRY_ISO
                THEN /\ CanStartLoad
                     /\ StartedBy("unknown", UNKNOWN_COUNTRY_ISO,
                                  WithCallback(StartCountryLoad(UNKNOWN_COUNTRY_ISO, TRUE), channel),
                                  setUrlState([country |-> UNKNOWN_COUNTRY_ISO, channel |-> <<>>]))
                     /\ booted' = TRUE
                ELSE selectByIso2(IF Len(country) = 3
                                  THEN Or(Lookup(ISO3_TO_ISO2_FALLBACK, country), country)
                                  ELSE country,
                                  channel)

\* click on the Unknown button, wired after applyUrlState: selectUnknown()
ClickUnknown ==
    /\ booted
    /\ CanStartLoad
    /\ Started("unknown", UNKNOWN_COUNTRY_ISO, StartCountryLoad(UNKNOWN_COUNTRY_ISO, FALSE),
               setUrlState([country |-> UNKNOWN_COUNTRY_ISO, channel |-> <<>>]))

NavWorlds ==
    {World(Ok(<<ChTF1, ChArte>>), Ok(<<ChTF1HD, ChArte, ChB>>)),
     World(Ok(<<ChSpaceA, ChBlank, ChBlank>>), NotOk)}

InitNav ==
    /\ FavIdle
    /\ PureIdle
    /\ trashStorage = NotStored
    /\ trashLast = NoTrashOp
    /\ fragments \in NavWorlds
    /\ loads = <<>>
    /\ selection = NoSelection
    /\ dom = DomAtStart
    /\ search \in InitialSearches
    /\ player = PlayerClosed
    /\ booted = FALSE
    /\ EnvIdle

NextNav ==
    \/ ApplyUrlState
    \/ ClickCountry
    \/ ClickUnknown
    \/ SelectCategory
    \/ FetchSettles
    \/ OpenPlayer
    \/ ClosePlayer
    \/ TrashAdd

SpecNav == InitNav /\ [][NextNav]_vars

\* the trash store used directly: add(channel), remove(iso, slug), clear()
TrashStoreChannels ==
    {[iso |-> i, name |-> n, url |-> <<"a">>] :
        i \in {StrFR, <<"f","r">>, <<>>}, n \in {StrTF1, <<"t","f","1","+">>, <<"A"," ","B">>}}
TrashStoreIsos == {StrFR, <<"f","r">>, <<>>}
TrashStoreSlugs == {<<"t","f","1">>, <<"T","F","1">>, <<"a","-","b">>}

TrashStoreAdd ==
    \E ch \in TrashStoreChannels :
        TrashOp("add", ch.iso, channelSlug(ch), addChannelToTrash(ch), NoNav)

TrashStoreRemove ==
    \E iso \in TrashStoreIsos, slug \in TrashStoreSlugs :
        TrashOp("remove", iso, slug, removeChannelFromTrash(iso, slug), NoNav)

TrashStoreClear == TrashOp("empty", <<>>, <<>>, emptyTrash, NoNav)

InitTrash == FavIdle /\ LoadIdle /\ PureIdle /\ NavIdle /\ EnvIdle

NextTrash ==
    \/ TrashStoreAdd
    \/ TrashStoreRemove
    \/ TrashStoreClear

SpecTrash == InitTrash /\ [][NextTrash]_vars

\* ---------------------------------------------------------------- loads that find nothing

\* getAttribute("data-iso2") of a map path drawn for a feature that
\* normalizeIso2 gave no code: the attribute was never set
NoIso2 == <<>>

\* click on such a path: selectCountry(el, true)
ClickTerritory ==
    /\ booted
    /\ IF selection.kind = "territory"
       THEN /\ selection' = NoSelection
            /\ search' = setUrlState(NoUrl)
            /\ UNCHANGED <<loads, dom, trashStorage, trashLast, fragments, favVars, pureVars, envVars, player, booted>>
       ELSE /\ CanStartLoad
            /\ Started("territory", NoIso2, StartCountryLoad(NoIso2, FALSE),
                       setUrlState([country |-> NoIso2, channel |-> <<>>]))

\* a server with no file at all, one whose only channel is TF1, and the
\* server of the example
NoFiles == <<>>
OnlyTF1 ==
    (<<"channels", StrFR, "iptv-org">> :> Ok(<<ChTF1>>))
    @@ (<<"cat_channels", StrNews, "iptv-org">> :> Ok(<<ChTF1>>))
SparseWorlds == {NoFiles, OnlyTF1, World(Ok(<<ChTF1, ChArte>>), Ok(<<ChTF1HD, ChArte, ChB>>))}

InitSparse ==
    /\ FavIdle
    /\ trashStorage = NotStored
    /\ trashLast = NoTrashOp
    /\ fragments \in SparseWorlds
    /\ loads = <<>>
    /\ selection = NoSelection
    /\ dom = DomAtStart
    /\ PureIdle
    /\ NavIdle
    /\ EnvIdle

NextSparse ==
    \/ ClickCountry
    \/ ClickTerritory
    \/ SelectUnknown
    \/ SelectCategory
    \/ FetchSettles
    \/ OpenPlayer
    \/ ClosePlayer
    \/ TrashAdd

SpecSparse == InitSparse /\ [][NextSparse]_vars

\* ---------------------------------------------------------------- degraded storage

\* what a browser can hold under either key before the page runs: nothing,
\* text that JSON.parse rejects, JSON of another shape
StoredKinds == {"missing", "notjson", "shape"}
StoredAtStart == {[raw |-> k, value |-> <<>>] : k \in StoredKinds}

\* from here on localStorage.setItem throws
StorageFills ==
    /\ ~storageFull
    /\ storageFull' = TRUE
    /\ UNCHANGED <<favVars, loadVars, pureVars, navVars>>

\* the store operations, taken while the record read is not a written one or
\* while writes fail; a behaviour works on one of the two stores
FavDegraded == (favStorage.raw # "ok" \/ storageFull) /\ trashLast = NoTrashOp
TrashDegraded == (trashStorage.raw # "ok" \/ storageFull) /\ favLast = NoFavOp

StoreFavAdd == FavDegraded /\ FavAdd
StoreFavRemove == FavDegraded /\ FavRemove
StoreFavAddFolder == FavDegraded /\ FavAddFolder
StoreFavMoveToFolder == FavDegraded /\ FavMoveToFolder
StoreFavMoveToTopLevel == FavDegraded /\ FavMoveToTopLevel
StoreFavMoveUpDown == FavDegraded /\ FavMoveUpDown
StoreTrashAdd == TrashDegraded /\ TrashStoreAdd
StoreTrashRemove == TrashDegraded /\ TrashStoreRemove
StoreTrashClear == TrashDegraded /\ TrashStoreClear

InitStore ==
    /\ favStorage \in StoredAtStart
    /\ favNextId = 0
    /\ favLast = NoFavOp
    /\ trashStorage \in StoredAtStart
    /\ trashLast = NoTrashOp
    /\ fragments = <<>>
    /\ loads = <<>>
    /\ selection = NoSelection
    /\ dom = DomAtStart
    /\ PureIdle
    /\ NavIdle
    /\ storageFull \in BOOLEAN

NextStore ==
    \/ StorageFills
    \/ StoreFavAdd
    \/ StoreFavRemove
    \/ StoreFavAddFolder
    \/ StoreFavMoveToFolder
    \/ StoreFavMoveToTopLevel
    \/ StoreFavMoveUpDown
    \/ StoreTrashAdd
    \/ StoreTrashRemove
    \/ StoreTrashClear

SpecStore == InitStore /\ [][NextStore]_vars

Init ==
    /\ FavIdle
    /\ trashStorage = NotStored
    /\ trashLast = NoTrashOp
    /\ fragments \in Worlds
    /\ loads = <<>>
    /\ selection = NoSelection
    /\ dom = DomAtStart
    /\ PureIdle
    /\ NavIdle
    /\ EnvIdle

Next ==
    \/ ClickCountry
    \/ SelectByIso2
    \/ SelectUnknown
    \/ SelectCategory
    \/ FetchSettles
    \/ OpenPlayer
    \/ ClosePlayer
    \/ TrashAdd
    \/ TrashRestore
    \/ TrashEmpty

Spec == Init /\ [][Next]_vars

\* ---------------------------------------------------------------- pure functions: inputs and actions

\* every string of at most n characters over the given characters
Words(chars, n) == UNION {[1..k -> chars] : k \in 0..n}

\* country codes as a caller may spell them: either case, padded, too short, too long
CodeChars == {"F", "R", "A", "f", "r", " ", "Z"}
TableCodes == {ISO2_TO_ISO3[k][1] : k \in DOMAIN ISO2_TO_ISO3} \cup {ISO2_TO_ISO3[k][2] : k \in DOMAIN ISO2_TO_ISO3}
CodeInputs ==
    Words(CodeChars, MaxCodeLen)
    \cup TableCodes
    \cup {toLowerCase(c) : c \in TableCodes}
    \cup {<<" ">> \o c \o <<" ">> : c \in TableCodes}

\* a pure function keeps no state: one call from the idle state shows all it does
Called(fn, arg, result) ==
    /\ call = NoCall
    /\ call' = [fn |-> fn, arg |-> arg, result |-> result]
    /\ UNCHANGED <<favVars, loadVars, navVars, envVars>>

CallGetChannelLoadCodes ==
    \E countryCode \in CodeInputs :
        Called("getChannelLoadCodes", countryCode, getChannelLoadCodes(countryCode))

\* feeds to look a reference up in: one slug under four spellings of the iso
\* field, and a channel with another slug
StrBE == <<"B","E">>
FeedChannels ==
    {[iso |-> StrFR, name |-> StrTF1, url |-> <<"a">>],
     [iso |-> <<"f","r">>, name |-> <<"t","f","1","+">>, url |-> <<"b">>],
     [iso |-> StrFRA, name |-> StrTF1, url |-> <<"c">>],
     [iso |-> StrBE, name |-> StrTF1, url |-> <<"d">>],
     [iso |-> StrFR, name |-> <<"A","r","t","e">>, url |-> <<>>]}
Feeds == Words(FeedChannels, MaxFeedLen)
RefIsos == {StrFR, <<"f","r">>}
RefSlugs == {<<"t","f","1">>, <<"T","f","1">>, <<"a","r","t","e">>, <<"x">>, <<>>}

\* a favorites row is rendered: resolveFavoriteChannel(entry)
CallResolveFavoriteChannel ==
    \E allChannelsCache \in Feeds, iso \in RefIsos, slug \in RefSlugs :
        Called("resolveFavoriteChannel", [channels |-> allChannelsCache, iso |-> iso, slug |-> slug],
               resolveFavoriteChannel(allChannelsCache, ChannelEntry(1, iso, slug, slug)))

\* the callback of the Play button of a favorites row, run on the loaded list
CallPlayFavorite ==
    \E channels \in Feeds, iso \in RefIsos, slug \in RefSlugs :
        Called("playFavorite", [channels |-> channels, iso |-> iso, slug |-> slug],
               findChannelBySlug(channels, slug))

\* the callback of applyUrlState, run on the loaded list of country
CallDeepLink ==
    \E channels \in Feeds, country \in RefIsos, channel \in RefSlugs :
        Called("applyUrlState", [channels |-> channels, iso |-> country, slug |-> channel],
               findChannelBySlug(channels, channel))

\* channel names: every word up to MaxNameLen over a letter in each case, a
\* digit, a space, a dash, a sign and an accented letter, and three longer names
NameChars == {"A", "b", "1", " ", "-", "+", "é"}
StrAlJazeeraEnglish ==
    <<"A","l"," ","J","a","z","e","e","r","a"," ","E","n","g","l","i","s","h">>
StrCanalPlus == <<"C","a","n","a","l","+">>
SlugNames == Words(NameChars, MaxNameLen) \cup {StrAlJazeeraEnglish, StrCanalPlus, <<" "," ">>}
SlugIsos == {StrFR, <<>>}

CallChannelSlug ==
    \E name \in SlugNames, iso \in SlugIsos :
        Called("channelSlug", [name |-> name, iso |-> iso], channelSlug([name |-> name, iso |-> iso]))

\* the fetch loops of a load over fragments that all arrive: each list is fed
\* to the same allChannels and seenUrls, in arrival order
RECURSIVE mergeFragments(_, _, _)
mergeFragments(allChannels, seenUrls, lists) ==
    IF lists = <<>> THEN [allChannels |-> allChannels, seenUrls |-> seenUrls]
    ELSE LET acc == Accumulate(allChannels, seenUrls, Head(lists))
         IN  mergeFragments(acc.allChannels, acc.seenUrls, Tail(lists))

MergeLists == {<<>>, <<ChTF1, ChArte>>, <<ChTF1HD, ChArte, ChB>>, <<ChSpaceA, ChBlank, ChBlank>>}
MaxFragments == 2
MergeInputs == UNION {[1..n -> MergeLists] : n \in 1..MaxFragments}

\* the same fragments served once, and served twice in a row
CallMergeTwice ==
    \E lists \in MergeInputs :
        Called("mergeFragments", lists,
               [once |-> mergeFragments(<<>>, {}, lists),
                twice |-> mergeFragments(<<>>, {}, lists \o lists)])

\* ---------------------------------------------------------------- the list filters

\* the single character U+2026
Ellipsis == "..."
SourceLabelMax == 28
SourceLabelKeep == 26

\* s.includes(sub)
includes(s, sub) ==
    \E i \in 0..(Len(s) - Len(sub)) : SubSeq(s, i + 1, i + Len(sub)) = sub

StrTv == <<"t","v">>

\* the <li> that loadChannelsForCountry builds for a channel: data-type,
\* data-source, the text of .channel-item-name and of .channel-item-source
\* (absent, hence empty, when the channel names no source at all)
channelRow(ch) ==
    LET typeNorm == trim(toLowerCase(Or(ch.type, StrTv)))
        sourceNorm == trim(ch.source_name)
        src == trim(ch.source)
        text == Or(sourceNorm, src)
        truncated == IF Len(text) > SourceLabelMax
                     THEN SubSeq(text, 1, SourceLabelKeep) \o <<Ellipsis>>
                     ELSE text
    IN  [type |-> typeNorm,
         source |-> sourceNorm,
         nameText |-> Or(ch.name, StrChannelCap),
         sourceText |-> truncated]

\* applyChannelFilters: for each row, whether it stays visible (does not get
\* the class filtered-out)
applyChannelFilters(rows, selectedType, selectedSource, filterText) ==
    LET needle == toLowerCase(trim(filterText))
    IN  [k \in DOMAIN rows |->
            LET typeOk == selectedType = <<>> \/ rows[k].type = selectedType
                sourceOk == selectedSource = <<>>
                            \/ (rows[k].source # <<>> /\ rows[k].source = selectedSource)
                nameStr == toLowerCase(rows[k].nameText)
                sourceStr == toLowerCase(rows[k].sourceText)
                textOk == needle = <<>> \/ includes(nameStr, needle) \/ includes(sourceStr, needle)
            IN  typeOk /\ sourceOk /\ textOk]

FilterChannel(name, type, source_name, source) ==
    [name |-> name, type |-> type, source_name |-> source_name, source |-> source]

\* source names of 30 and of 28 characters
StrLong30 == <<"m","3","u","-","r","a","d","i","o","-","m","u","s","i","c","-",
              "p","l","a","y","l","i","s","t","s","-","l","i","v","e">>
StrLong28 == SubSeq(StrLong30, 1, 28)
StrOrg == <<"O","r","g">>

\* a list with a long source name, one at the limit, a radio with a padded
\* type, a channel that has neither name nor source_name, and a plain one
FilterFeed ==
    <<FilterChannel(<<"N","1">>, StrTv, StrLong30, <<>>),
      FilterChannel(<<"N","2">>, StrTv, StrLong28, <<>>),
      FilterChannel(<<"A","b">>, <<"R","a","d","i","o"," ">>, StrOrg, <<>>),
      FilterChannel(<<>>, <<>>, <<>>, <<"u","r","l">>),
      FilterChannel(StrTF1, StrTv, StrOrg, <<"u","r","l">>)>>

FilterRows == [k \in DOMAIN FilterFeed |-> channelRow(FilterFeed[k])]

\* the toggles offer All and every value met in the rows
FilterTypes == {<<>>} \cup {FilterRows[k].type : k \in DOMAIN FilterRows}
FilterSources == {<<>>} \cup ({FilterRows[k].source : k \in DOMAIN FilterRows} \ {<<>>})
FilterTexts ==
    {<<>>, <<" ">>, <<"t","f">>, <<"T","F">>, <<"n">>, <<"o","r","g">>, <<"a","b">>,
     <<"l","i","v","e">>, <<"m","3","u">>, <<"s","-","l">>, <<"s","t","s">>,
     <<Ellipsis>>, <<"u","r">>, <<"c","h","a","n">>, <<"z">>}

CallApplyChannelFilters ==
    \E selectedType \in FilterTypes, selectedSource \in FilterSources, filterText \in FilterTexts :
        Called("applyChannelFilters",
               [channels |-> FilterFeed, type |-> selectedType,
                source |-> selectedSource, text |-> filterText],
               applyChannelFilters(FilterRows, selectedType, selectedSource, filterText))

\* ---------------------------------------------------------------- operations that only read the stores

\* allChannelsCache: null until data/channels.json has been loaded, then its list
Catalogs == {<<>>, <<ChTF1, ChB, ChCam>>}

\* a rendering that drops from the store the top-level rows it cannot resolve
renderFavoritesList_Prune(allChannelsCache) ==
    LET flat == flattenFavoriteChannels(getFavorites)
    IN  [rows |-> [k \in DOMAIN flat |->
                      [id |-> flat[k].id,
                       play |-> resolveFavoriteChannel(allChannelsCache, flat[k]).found,
                       warning |-> ~resolveFavoriteChannel(allChannelsCache, flat[k]).found]],
         stored |-> Stored(SelectSeq(getFavorites, LAMBDA it :
                        it.type # "channel" \/ resolveFavoriteChannel(allChannelsCache, it).found))]

\* renderFavoritesList: one row per channel entry, depth first, with a Play
\* button when the entry resolves and the words "no longer available" when it
\* does not; the record under the favorites key is only read
renderFavoritesList(allChannelsCache) ==
    LET flat == flattenFavoriteChannels(getFavorites)
    IN  [rows |-> [k \in DOMAIN flat |->
                      [id |-> flat[k].id,
                       play |-> resolveFavoriteChannel(allChannelsCache, flat[k]).found,
                       warning |-> ~resolveFavoriteChannel(allChannelsCache, flat[k]).found]],
         stored |-> favStorage]

\* the favorites panel is opened, or redrawn
RenderFavorites ==
    \E allChannelsCache \in Catalogs :
        /\ call' = [fn |-> "renderFavoritesList", arg |-> allChannelsCache,
                    result |-> renderFavoritesList(allChannelsCache).rows]
        /\ favStorage' = renderFavoritesList(allChannelsCache).stored
        /\ UNCHANGED <<favNextId, favLast, loadVars, navVars, envVars>>

\* the play() promise of the open player rejects, or Hls reports a fatal
\* error: the error line of the player is shown
PlaybackFails ==
    /\ player.open
    /\ trim(player.ch.url) # <<>>
    /\ ~player.error
    /\ player' = [player EXCEPT !.error = TRUE]
    /\ UNCHANGED <<favVars, loadVars, pureVars, envVars, search, booted>>

\* typing in the search box of the channel list: the rows of the list are
\* shown or hidden
ApplyFilters ==
    \E filterText \in {<<>>, <<"t","f">>} :
        LET rows == [k \in DOMAIN dom.list |->
                        channelRow(FilterChannel(dom.list[k].ch.name, <<>>, <<>>, <<>>))]
        IN  /\ dom.list # <<>>
            /\ call' = [fn |-> "applyChannelFilters", arg |-> filterText,
                        result |-> applyChannelFilters(rows, <<>>, <<>>, filterText)]
            /\ UNCHANGED <<favVars, loadVars, navVars, envVars>>

\* the stores of a returning visitor: TF1 of FR at top level and, in a folder,
\* a channel that no feed holds any more; B of FR in the trash
StrGone == <<"g","o","n","e">>
FrameFavorites ==
    <<ChannelEntry(1, StrFR, <<"t","f","1">>, StrTF1),
      [FolderEntry(2, <<"F">>) EXCEPT !.children = <<ChannelEntry(3, StrFR, StrGone, StrGone)>>]>>
FrameTrash == <<[iso |-> StrFR, slug |-> <<"b">>, name |-> <<"B">>]>>
FrameSearches ==
    {NoUrl, [country |-> StrFR, channel |-> <<"t","f","1">>], [country |-> StrFR, channel |-> StrGone]}

InitFrame ==
    /\ favStorage = Stored(FrameFavorites)
    /\ favNextId = 3
    /\ favLast = NoFavOp
    /\ trashStorage = Stored(FrameTrash)
    /\ trashLast = NoTrashOp
    /\ fragments \in NavWorlds
    /\ loads = <<>>
    /\ selection = NoSelection
    /\ dom = DomAtStart
    /\ PureIdle
    /\ search \in FrameSearches
    /\ player = PlayerClosed
    /\ booted = FALSE
    /\ EnvIdle

NextFrame ==
    \/ ApplyUrlState
    \/ ClickCountry
    \/ SelectCategory
    \/ FetchSettles
    \/ OpenPlayer
    \/ ClosePlayer
    \/ PlaybackFails
    \/ RenderFavorites
    \/ ApplyFilters

SpecFrame == InitFrame /\ [][NextFrame]_vars

\* ---------------------------------------------------------------- the Play button of a favorite

\* data/channels.json, the aggregate catalog the favorites panel resolves in
PlayCatalog == <<ChTF1, ChB, ChCam>>

\* favorites of TF1 and of B, both of FR, and of Cam, filed under XX; B is
\* also in the trash
PlayFavorites ==
    <<ChannelEntry(1, StrFR, <<"t","f","1">>, StrTF1),
      ChannelEntry(2, StrFR, <<"b">>, <<"B">>),
      ChannelEntry(3, UNKNOWN_COUNTRY_ISO, <<"c","a","m">>, <<"C","a","m">>)>>

\* click on the Play button of a favorites row: the button exists when the
\* entry resolves; currentSelectByIso2(iso, callback) looks for the map element
\* with that data-iso2 and, when there is one, selects it and loads the country
PlayFavorite ==
    \E k \in DOMAIN flattenFavoriteChannels(getFavorites) :
        LET entry == flattenFavoriteChannels(getFavorites)[k]
            norm == toUpperCase(trim(entry.iso))
            r == WithCallback(StartCountryLoad(norm, TRUE), entry.slug)
        IN  /\ booted
            /\ ~player.open
            /\ resolveFavoriteChannel(PlayCatalog, entry).found
            /\ IF Len(norm) = 2 /\ norm \in MapCountries
               THEN /\ CanStartLoad
                    /\ call' = [fn |-> "play", arg |-> entry, result |-> Len(loads) + 1]
                    /\ loads' = Append(MarkStale(loads), r.load)
                    /\ dom' = r.dom
                    /\ selection' = [kind |-> "country", name |-> norm, load |-> Len(loads) + 1]
                    /\ search' = setUrlState([country |-> norm, channel |-> <<>>])
               ELSE /\ call' = [fn |-> "play", arg |-> entry, result |-> 0]
                    /\ UNCHANGED <<loads, dom, selection, search>>
            /\ UNCHANGED <<trashStorage, trashLast, fragments, favVars, envVars, player, booted>>

InitPlay ==
    /\ favStorage = Stored(PlayFavorites)
    /\ favNextId = 3
    /\ favLast = NoFavOp
    /\ trashStorage = Stored(FrameTrash)
    /\ trashLast = NoTrashOp
    /\ fragments = World(Ok(<<ChTF1, ChArte>>), Ok(<<ChTF1HD, ChArte, ChB>>))
    /\ loads = <<>>
    /\ selection = NoSelection
    /\ dom = DomAtStart
    /\ PureIdle
    /\ NavIdle
    /\ EnvIdle

NextPlay ==
    \/ PlayFavorite
    \/ ClickCountry
    \/ SelectCategory
    \/ FetchSettles
    \/ ClosePlayer

\* every fetch completes: a load that awaits a fetch is resumed
SpecPlay == InitPlay /\ [][NextPlay]_vars /\ WF_vars(FetchSettles)

InitPure == FavIdle /\ LoadIdle /\ PureIdle /\ NavIdle /\ EnvIdle

NextPure ==
    \/ CallGetChannelLoadCodes
    \/ CallResolveFavoriteChannel
    \/ CallPlayFavorite
    \/ CallDeepLink
    \/ CallChannelSlug
    \/ CallApplyChannelFilters
    \/ CallMergeTwice

SpecPure == InitPure /\ [][NextPure]_vars

\* ---------------------------------------------------------------- favorites: properties

\* The forest read as a depth-first list of nodes, each with the id of the
\* folder it sits in (0 at top level) and the ids of all the folders above it.
RECURSIVE NodesOf(_, _, _)
NodesOf(items, parent, anc) ==
    IF items = <<>> THEN <<>>
    ELSE LET it == Head(items)
         IN  <<[id |-> it.id, entry |-> it, parent |-> parent, anc |-> anc]>>
             \o NodesOf(it.children, it.id, anc \cup {it.id})
             \o NodesOf(Tail(items), parent, anc)

Nodes(items) == NodesOf(items, 0, {})
IdsOf(items) == {Nodes(items)[k].id : k \in DOMAIN Nodes(items)}
NodeOf(items, id) == LET ns == Nodes(items) IN ns[CHOOSE k \in DOMAIN ns : ns[k].id = id]
IsFolderIn(items, id) == id \in IdsOf(items) /\ NodeOf(items, id).entry.type = "folder"
KeyOf(iso, slug) == <<toUpperCase(iso), toLowerCase(slug)>>
ChannelKeys(items) ==
    LET ns == Nodes(items)
    IN  {KeyOf(ns[k].entry.iso, ns[k].entry.slug) : k \in {m \in DOMAIN ns : ns[m].entry.type = "channel"}}
\* the node is the last entry of the list of its parent
IsLastOf(items, id, parent) ==
    LET ns == Nodes(items)
        k == CHOOSE m \in DOMAIN ns : ns[m].id = id
    IN  /\ ns[k].parent = parent
        /\ \A m \in DOMAIN ns : m > k => ns[m].parent # parent
Unchanged == getFavorites = favLast.before /\ ~favLast.notified

\* C6: at most one channel entry per composite key (iso uppercased, slug
\* lowercased) anywhere in the forest; add of a key already present, at top
\* level or nested, leaves the store unchanged, and add of a new key appends
\* exactly one channel entry with that key at the end of the top-level list.
C6_OneEntryPerKey ==
    LET ns == Nodes(getFavorites)
    IN  /\ \A i, j \in DOMAIN ns :
               (/\ i # j
                /\ ns[i].entry.type = "channel"
                /\ ns[j].entry.type = "channel")
               => KeyOf(ns[i].entry.iso, ns[i].entry.slug) # KeyOf(ns[j].entry.iso, ns[j].entry.slug)
        /\ favLast.op = "add" =>
               LET key == KeyOf(favLast.ch.iso, channelSlug(favLast.ch))
               IN  IF key \in ChannelKeys(favLast.before)
                   THEN Unchanged
                   ELSE /\ favLast.notified
                        /\ Len(getFavorites) = Len(favLast.before) + 1
                        /\ SubSeq(getFavorites, 1, Len(favLast.before)) = favLast.before
                        /\ getFavorites[Len(getFavorites)].type = "channel"
                        /\ KeyOf(getFavorites[Len(getFavorites)].iso,
                                 getFavorites[Len(getFavorites)].slug) = key

\* add of a channel whose key sits inside a folder, spelled with another case
C6_Witness ==
    /\ favLast.op = "add"
    /\ ~favLast.notified
    /\ favLast.ch.iso # toUpperCase(favLast.ch.iso)
    /\ \E k \in DOMAIN Nodes(favLast.before) :
           /\ Nodes(favLast.before)[k].parent # 0
           /\ Nodes(favLast.before)[k].entry.type = "channel"
           /\ KeyOf(Nodes(favLast.before)[k].entry.iso, Nodes(favLast.before)[k].entry.slug)
                  = KeyOf(favLast.ch.iso, channelSlug(favLast.ch))

MoveOps == {"moveToFolder", "moveToTopLevel", "moveUpDown"}

\* C7: the favorites structure is a forest: every node id occurs exactly once
\* (so no node has two parents and no folder is inside itself), also after
\* moveToFolder of a folder into itself or into its own descendant; the move
\* operations never change the set of node ids.
C7_Forest ==
    LET ns == Nodes(getFavorites)
    IN  /\ \A i, j \in DOMAIN ns : i # j => ns[i].id # ns[j].id
        /\ \A i \in DOMAIN ns : ns[i].id \notin ns[i].anc
        /\ favLast.op \in MoveOps => IdsOf(getFavorites) = IdsOf(favLast.before)

\* a folder with a folder inside was asked to move into that inner folder
C7_Witness ==
    /\ favLast.op = "moveToFolder"
    /\ favLast.notified
    /\ IsFolderIn(favLast.before, favLast.folderId)
    /\ favLast.id \in NodeOf(favLast.before, favLast.folderId).anc

\* the folder named by folderId is the moved entry or lies in its subtree
InOwnSubtree(items, id, folderId) ==
    folderId = id \/ (folderId \in IdsOf(items) /\ id \in NodeOf(items, folderId).anc)

MovedUnder(parent) ==
    /\ favLast.notified
    /\ favLast.id \in IdsOf(getFavorites)
    /\ NodeOf(getFavorites, favLast.id).entry = NodeOf(favLast.before, favLast.id).entry
    /\ IsLastOf(getFavorites, favLast.id, parent)

\* C8 as stated: whenever folderId names an existing folder, the entry becomes
\* the last child of that folder.
C8_AsStated ==
    (/\ favLast.op = "moveToFolder"
     /\ favLast.id \in IdsOf(favLast.before)
     /\ IsFolderIn(favLast.before, favLast.folderId))
    => MovedUnder(favLast.folderId)

\* C8 (amended): moveToFolder(id, folderId) with id in the forest makes the
\* entry, with its subtree, the last child of the folder folderId when that
\* folder exists and is neither the entry itself nor inside the entry's
\* subtree, and the last top-level entry otherwise; with id not in the forest
\* the persisted forest is unchanged and no change notification is sent.
C8_MoveToFolder ==
    favLast.op = "moveToFolder" =>
        IF favLast.id \notin IdsOf(favLast.before) THEN Unchanged
        ELSE IF /\ IsFolderIn(favLast.before, favLast.folderId)
                /\ ~InOwnSubtree(favLast.before, favLast.id, favLast.folderId)
             THEN MovedUnder(favLast.folderId)
             ELSE MovedUnder(0)

\* an entry with a subtree was moved from the top level into a nested folder
C8_Witness ==
    /\ favLast.op = "moveToFolder"
    /\ favLast.notified
    /\ favLast.id \in IdsOf(favLast.before)
    /\ IsFolderIn(favLast.before, favLast.folderId)
    /\ NodeOf(favLast.before, favLast.id).parent = 0
    /\ NodeOf(getFavorites, favLast.id).parent = favLast.folderId
    /\ NodeOf(getFavorites, favLast.folderId).parent # 0

\* the ids in flattened depth-first order
FlatIds(items) == [k \in DOMAIN Nodes(items) |-> Nodes(items)[k].id]
PosIn(seq, x) == CHOOSE k \in DOMAIN seq : seq[k] = x
NeighbourPos(items, id, dir) == IF dir = "up" THEN PosIn(FlatIds(items), id) - 1
                                ELSE PosIn(FlatIds(items), id) + 1
HasNeighbour(items, id, dir) ==
    /\ id \in IdsOf(items)
    /\ NeighbourPos(items, id, dir) \in DOMAIN Nodes(items)
NeighbourOf(items, id, dir) == Nodes(items)[NeighbourPos(items, id, dir)]

\* C9: moveUpDown(id, direction) leaves the persisted forest unchanged and
\* sends no notification when id is not in the forest, when id has no
\* neighbour in that direction in the flattened depth-first order, and when
\* that neighbour sits in a different parent list.
C9_MoveUpDownNoOp ==
    favLast.op = "moveUpDown" =>
        ((\/ ~HasNeighbour(favLast.before, favLast.id, favLast.dir)
          \/ NeighbourOf(favLast.before, favLast.id, favLast.dir).parent
                 # NodeOf(favLast.before, favLast.id).parent)
         => Unchanged)

\* the neighbour exists and sits in another parent list
C9_Witness ==
    /\ favLast.op = "moveUpDown"
    /\ HasNeighbour(favLast.before, favLast.id, favLast.dir)
    /\ NeighbourOf(favLast.before, favLast.id, favLast.dir).parent
           # NodeOf(favLast.before, favLast.id).parent
    /\ NodeOf(favLast.before, favLast.id).parent # 0
    /\ favLast.dir = "down"

\* what a node is and where it sits, its children left out
Places(ns) ==
    [k \in DOMAIN ns |-> [id |-> ns[k].id, parent |-> ns[k].parent, type |-> ns[k].entry.type,
                          iso |-> ns[k].entry.iso, slug |-> ns[k].entry.slug, name |-> ns[k].entry.name]]

\* C10: remove(id) deletes the node with that id and its subtree, wherever it
\* sits; every other node keeps its parent and its relative order; when the id
\* is nowhere in the forest the persisted forest is unchanged and no
\* notification is sent.
C10_Remove ==
    favLast.op = "remove" =>
        IF favLast.id \notin IdsOf(favLast.before) THEN Unchanged
        ELSE /\ favLast.notified
             /\ Places(Nodes(getFavorites))
                    = Places(SelectSeq(Nodes(favLast.before),
                                       LAMBDA n : n.id # favLast.id /\ favLast.id \notin n.anc))

\* a nested folder that has a child was removed, and other nodes remain
C10_Witness ==
    /\ favLast.op = "remove"
    /\ favLast.notified
    /\ NodeOf(favLast.before, favLast.id).parent # 0
    /\ NodeOf(favLast.before, favLast.id).entry.children # <<>>
    /\ getFavorites # <<>>

\* ---------------------------------------------------------------- loader: properties

Finished(l) == l.status = "done" /\ l.outcome \in {"list", "empty"}

\* The codes a selection is looked up under, and the channels the fragments
\* under them hold, code by code and, within a code, source by source.
CodesOf(l) == IF l.kind = "country" /\ l.name = StrFR THEN <<StrFR, StrFRA>> ELSE <<l.name>>
DirOf(l) == IF l.kind = "category" THEN "cat_channels" ELSE "channels"
ListAt(path) == IF path \in DOMAIN fragments /\ fragments[path].kind = "ok" THEN fragments[path].channels ELSE <<>>

RECURSIVE SourcesFrom(_, _, _)
SourcesFrom(dir, code, k) ==
    IF k > Len(CHANNEL_SOURCE_NAMES) THEN <<>>
    ELSE ListAt(<<dir, code, CHANNEL_SOURCE_NAMES[k]>>) \o SourcesFrom(dir, code, k + 1)

RECURSIVE CodesFrom(_, _)
CodesFrom(dir, codes) ==
    IF codes = <<>> THEN <<>>
    ELSE SourcesFrom(dir, Head(codes), 1) \o CodesFrom(dir, Tail(codes))

Enumeration(l) == CodesFrom(DirOf(l), CodesOf(l))

Blank(url) == \A k \in DOMAIN url : IsSpace(url[k])
FirstWith(e, url) == e[CHOOSE m \in DOMAIN e : e[m].url = url /\ \A j \in 1..(m - 1) : e[j].url # url]
OnePerUrl(feed, e, url) ==
    /\ Cardinality({k \in DOMAIN feed : feed[k].url = url}) <= 1
    /\ \A k \in DOMAIN feed : feed[k].url = url => feed[k] = FirstWith(e, url)
UrlsOf(feed) == {feed[k].url : k \in DOMAIN feed}

\* C1 as stated: at most one channel per non-empty url
C1_AsStated ==
    \A id \in DOMAIN loads :
        Finished(loads[id]) =>
            \A url \in UrlsOf(loads[id].allChannels) :
                url # <<>> => OnePerUrl(loads[id].allChannels, Enumeration(loads[id]), url)

SpecExample == World(Ok(<<ChTF1, ChArte>>), Ok(<<ChTF1HD, ChArte, ChB>>))

\* C1 (amended): after a country or category load in which no fetch failed, the
\* merged feed (before and after the trash filter) holds at most one channel
\* per url that is not blank (not empty after trimming white space), and that
\* channel is the first one with that url in enumeration order (code outer,
\* source inner, position in the fragment last); with FR/iptv-org = [TF1,
\* http://a] and FR/free-tv-iptv = [TF1 HD, http://a] the feed of FR has
\* exactly one channel with that url, named TF1.
C1_FirstWins ==
    \A id \in DOMAIN loads :
        Finished(loads[id]) =>
            /\ \A url \in UrlsOf(loads[id].allChannels) :
                   ~Blank(url) =>
                       /\ OnePerUrl(loads[id].allChannels, Enumeration(loads[id]), url)
                       /\ OnePerUrl(loads[id].result, Enumeration(loads[id]), url)
            /\ (fragments = SpecExample /\ loads[id].name = StrFR) =>
                   SelectSeq(loads[id].allChannels, LAMBDA ch : ch.url = <<"a">>) = <<ChTF1>>

\* the load of FR over the two fragments of the example has finished and shows TF1
C1_Witness ==
    \E id \in DOMAIN loads :
        /\ Finished(loads[id])
        /\ fragments = SpecExample
        /\ loads[id].name = StrFR
        /\ \E k \in DOMAIN dom.list : dom.list[k].ch = ChTF1
        /\ \E k \in DOMAIN loads[id].result : loads[id].result[k] = ChB

\* C2: a load that was awaiting a fetch when a later selection was made never
\* puts a channel in the displayed list and never runs its callback, and once
\* every load has returned the displayed list is the feed of the latest
\* selection.
C2_StaleLoadNotApplied ==
    /\ \A id \in DOMAIN loads :
           loads[id].stale =>
               /\ ~loads[id].cbRun
               /\ \A k \in DOMAIN dom.list : dom.list[k].load # id
    /\ (/\ loads # <<>>
        /\ \A id \in DOMAIN loads : loads[id].status = "done")
       => [k \in DOMAIN dom.list |-> dom.list[k].ch] = loads[Len(loads)].result

TrashKeys == {KeyOf(getTrash[k].iso, getTrash[k].slug) : k \in DOMAIN getTrash}

\* C3: when a load, of a country or of a category, produces its result, no
\* channel of the result has its (iso uppercased, slug) pair in the trash; this
\* holds for every load, repeated ones included.
C3_TrashedNeverInResult ==
    [][\A id \in DOMAIN loads :
           (loads[id].status = "awaiting" /\ loads'[id].status = "done") =>
               \A k \in DOMAIN loads'[id].result :
                   KeyOf(loads'[id].result[k].iso, channelSlug(loads'[id].result[k])) \notin TrashKeys]_vars

\* a second load of a selection returned a list while the trash held a channel
\* of its fragments, spelled in another case there
C3_Witness ==
    /\ Len(loads) = 2
    /\ loads[1].name = loads[2].name
    /\ loads[1].status = "done"
    /\ loads[2].outcome = "list"
    /\ getTrash # <<>>
    /\ \E k \in DOMAIN loads[2].allChannels :
           /\ loads[2].allChannels[k] = ChSpaceA
           /\ KeyOf(ChSpaceA.iso, channelSlug(ChSpaceA)) \in TrashKeys
    /\ \A k \in DOMAIN loads[2].result : loads[2].result[k] # ChSpaceA

\* the merge of an enumeration: a channel is kept when its trimmed url is empty
\* or no earlier channel has the same trimmed url
Kept(e) ==
    {m \in DOMAIN e : \/ trim(e[m].url) = <<>>
                      \/ \A j \in 1..(m - 1) : trim(e[j].url) # trim(e[m].url)}
RECURSIVE MergeFrom(_, _)
MergeFrom(e, m) ==
    IF m > Len(e) THEN <<>>
    ELSE (IF m \in Kept(e) THEN <<e[m]>> ELSE <<>>) \o MergeFrom(e, m + 1)
MergeOf(e) == MergeFrom(e, 1)

\* C4: a fragment whose fetch fails, whose body is not JSON or whose channels
\* field is absent or not a list contributes no channel and the load goes on:
\* every fragment is fetched and the channels of all the others are merged.
C4_FailedFragmentSkipped ==
    \A id \in DOMAIN loads :
        loads[id].status = "done" =>
            /\ Len(loads[id].fetched) = Len(loads[id].paths)
            /\ loads[id].outcome # "error"
            /\ loads[id].allChannels = MergeOf(Enumeration(loads[id]))

\* C5: a fragment that answers with a non-OK status is skipped without error:
\* the load goes on to the next pair, a non-OK answer never ends the load in
\* the catch block, and a load in which no fetch failed has fetched every path
\* and its merge is the merge of the fragments that exist.
C5_MissingFragmentSkipped ==
    \A id \in DOMAIN loads :
        LET l == loads[id]
        IN  /\ l.status = "awaiting" => l.pos = Len(l.fetched) + 1
            /\ l.outcome = "error" => l.fetched[Len(l.fetched)].kind # "notok"
            /\ (l.status = "done" /\ \A k \in DOMAIN l.fetched : l.fetched[k].kind \in {"ok", "notok"}) =>
                   /\ Len(l.fetched) = Len(l.paths)
                   /\ Finished(l)
                   /\ l.allChannels = MergeOf(Enumeration(l))

\* a load finished with a list although a fragment between two that exist was missing
C5_Witness ==
    \E id \in DOMAIN loads :
        /\ loads[id].outcome = "list"
        /\ loads[id].name = StrFR
        /\ loads[id].fetched[1].kind = "ok"
        /\ loads[id].fetched[2].kind = "notok"
        /\ \E k \in DOMAIN loads[id].result : loads[id].result[k] = ChC

\* the channels displayed for the current selection
ShownForSelection ==
    LET rows == SelectSeq(dom.list, LAMBDA row : row.load = selection.load)
    IN  [k \in DOMAIN rows |-> rows[k].ch]

\* C13: every change of the trash (add of a new key, remove, empty) reaches
\* the observer of the channel list, which reloads the list of the selected
\* country or category: once no load is in flight, the channels displayed for
\* the selection are those of its feed that are not in the trash, so a
\* channel just trashed is gone and a channel just restored is back.
C13_TrashChangeReloadsList ==
    (/\ selection.kind # "none"
     /\ \A id \in DOMAIN loads : loads[id].status = "done"
     /\ Finished(loads[selection.load]))
    => ShownForSelection = FilterTrash(loads[selection.load].allChannels)

\* ---------------------------------------------------------------- deep links and the query string

\* the rows of the displayed list that load id appended
RowsOf(d, id) ==
    LET rows == SelectSeq(d.list, LAMBDA row : row.load = id)
    IN  [k \in DOMAIN rows |-> rows[k].ch]

\* the positions of list whose channel has the slug S, case of S ignored
SlugHits(list, S) == {k \in DOMAIN list : channelSlug(list[k]) = toLowerCase(S)}
FirstHit(list, S) == list[CHOOSE k \in SlugHits(list, S) : \A m \in SlugHits(list, S) : k <= m]

C16_UrlMirrorsSelection ==
    /\ selection.kind \in {"country", "unknown"} => search.country = selection.name
    /\ selection.kind \in {"none", "category"} => search.country = <<>>
    /\ (player.open /\ selection.kind \in {"country", "unknown"}) =>
           search.channel = channelSlug(player.ch)
    /\ ~player.open => search.channel = <<>>
    /\ getUrlState = search

\* ---------------------------------------------------------------- trash: properties

TrashKeyAt(list, k) == KeyOf(list[k].iso, list[k].slug)
TrashKeysOf(list) == {TrashKeyAt(list, k) : k \in DOMAIN list}
TrashStoreKeys == {KeyOf(i, s) : i \in TrashStoreIsos, s \in TrashStoreSlugs}

\* C14: the trash is a set of composite keys (iso uppercased, slug
\* lowercased): has(iso, slug), however the key is spelled, is true exactly
\* for the keys added and not since removed or cleared; the stored list never
\* holds a key twice; add of a key already present leaves the list unchanged
\* and add of a new key appends one entry; remove of a key leaves the other
\* entries in their order; clear leaves nothing.
C14_TrashIsKeySet ==
    /\ \A i, j \in DOMAIN getTrash : i # j => TrashKeyAt(getTrash, i) # TrashKeyAt(getTrash, j)
    /\ \A i \in TrashStoreIsos, s \in TrashStoreSlugs :
           isChannelInTrash(i, s) <=> KeyOf(i, s) \in trashLast.keys
    /\ TrashKeysOf(getTrash) = trashLast.keys
    /\ trashLast.op = "add" =>
           IF KeyOf(trashLast.iso, trashLast.slug) \in TrashKeysOf(trashLast.before)
           THEN getTrash = trashLast.before
           ELSE /\ Len(getTrash) = Len(trashLast.before) + 1
                /\ SubSeq(getTrash, 1, Len(trashLast.before)) = trashLast.before
                /\ TrashKeyAt(getTrash, Len(getTrash)) = KeyOf(trashLast.iso, trashLast.slug)
    /\ trashLast.op = "remove" =>
           getTrash = SelectSeq(trashLast.before,
                                LAMBDA e : KeyOf(e.iso, e.slug) # KeyOf(trashLast.iso, trashLast.slug))
    /\ trashLast.op = "empty" => getTrash = <<>>

\* a key spelled in lower case was added while the list held it, among others
C14_Witness ==
    /\ trashLast.op = "add"
    /\ trashLast.iso = <<"f","r">>
    /\ Len(trashLast.before) >= 3
    /\ KeyOf(trashLast.iso, trashLast.slug) = TrashKeyAt(trashLast.before, 2)
    /\ getTrash = trashLast.before

\* ---------------------------------------------------------------- pure functions: properties

\* the six pairs the resolver is documented to know, alpha-2 first
KnownPairs ==
    {<<<<"F","R">>, <<"F","R","A">>>>, <<<<"P","T">>, <<"P","R","T">>>>, <<<<"N","O">>, <<"N","O","R">>>>,
     <<<<"D","E">>, <<"D","E","U">>>>, <<<<"G","B">>, <<"G","B","R">>>>, <<<<"U","S">>, <<"U","S","A">>>>}

\* C11: getChannelLoadCodes(code), with the input trimmed and uppercased:
\* the empty list when the code is empty or its length is neither 2 nor 3;
\* [iso2, iso3] for each of FR/FRA, PT/PRT, NO/NOR, DE/DEU, GB/GBR, US/USA,
\* whichever form is given; [code] for every other code of length 2 or 3.
C11_LoadCodes ==
    call.fn = "getChannelLoadCodes" =>
        LET code == toUpperCase(trim(call.arg))
        IN  IF Len(code) \notin {2, 3} THEN call.result = <<>>
            ELSE IF \E p \in KnownPairs : code \in {p[1], p[2]}
                 THEN \E p \in KnownPairs : code \in {p[1], p[2]} /\ call.result = <<p[1], p[2]>>
                 ELSE call.result = <<code>>

\* the resolver was given a padded mixed-case alpha-3 code of the table
C11_Witness ==
    /\ call.fn = "getChannelLoadCodes"
    /\ call.arg = <<" ", "f", "r", "A">>
    /\ call.result = <<<<"F","R">>, <<"F","R","A">>>>

\* the first channel of the feed with that iso and that slug, case ignored
RefMatches(ch, iso, slug) ==
    /\ toUpperCase(ch.iso) = toUpperCase(iso)
    /\ toLowerCase(channelSlug(ch)) = toLowerCase(slug)
FirstMatch(channels, iso, slug) ==
    Find(channels, {k \in DOMAIN channels : RefMatches(channels[k], iso, slug)})

\* C12: resolving a reference (iso, slug) against a feed, for a favorite
\* entry, for the Play action of a favorite and for a deep link, returns the
\* first channel of the feed whose iso and recomputed slug equal those of the
\* reference, case ignored, and not-found when there is none; a channel with
\* the same slug and another iso is never returned.
C12_ResolveByIsoAndSlug ==
    call.fn \in {"resolveFavoriteChannel", "playFavorite", "applyUrlState"} =>
        /\ call.result = FirstMatch(call.arg.channels, call.arg.iso, call.arg.slug)
        /\ call.result.found => toUpperCase(call.result.ch.iso) = toUpperCase(call.arg.iso)

\* C17: a favorites or trash record that is missing, is not JSON or has another
\* shape reads as the empty value; no store operation throws; an operation
\* taken on such a record leaves what the same operation leaves on an empty
\* store; an operation whose write fails leaves the record as it was and does
\* not throw.
FavAsBefore == favStorage.raw = favLast.raw /\ getFavorites = favLast.before
TrashAsBefore == trashStorage.raw = trashLast.raw /\ getTrash = trashLast.before

C17_DegradedStorage ==
    /\ favStorage.raw # "ok" =>
           /\ ~readStorage(favStorage).threw
           /\ getFavorites = <<>>
           /\ \A ch \in FavChannels : ~isChannelInFavorites(ch.iso, channelSlug(ch))
    /\ trashStorage.raw # "ok" =>
           /\ ~readStorage(trashStorage).threw
           /\ getTrash = <<>>
           /\ \A ch \in TrashStoreChannels : ~isChannelInTrash(ch.iso, channelSlug(ch))
    /\ ~favLast.threw
    /\ ~trashLast.threw
    /\ (favLast.op # "none" /\ favLast.raw # "ok") =>
           /\ favLast.before = <<>>
           /\ IF favLast.full THEN FavAsBefore
              ELSE CASE favLast.op = "add" ->
                            /\ favLast.notified
                            /\ favStorage.raw = "ok"
                            /\ Len(favStorage.value) = 1
                            /\ favStorage.value[1].type = "channel"
                            /\ favStorage.value[1].iso = toUpperCase(favLast.ch.iso)
                            /\ favStorage.value[1].slug = channelSlug(favLast.ch)
                     [] favLast.op = "addFolder" ->
                            /\ favLast.notified
                            /\ favStorage.raw = "ok"
                            /\ Len(favStorage.value) = 1
                            /\ favStorage.value[1].type = "folder"
                            /\ favStorage.value[1].children = <<>>
                     [] OTHER -> FavAsBefore /\ ~favLast.notified
    /\ (trashLast.op # "none" /\ trashLast.raw # "ok") =>
           /\ trashLast.before = <<>>
           /\ trashLast.notified
           /\ IF trashLast.full THEN TrashAsBefore
              ELSE CASE trashLast.op = "add" ->
                            /\ trashStorage.raw = "ok"
                            /\ Len(trashStorage.value) = 1
                            /\ trashStorage.value[1].iso = toUpperCase(trashLast.iso)
                            /\ trashStorage.value[1].slug = trashLast.slug
                     [] OTHER -> trashStorage = Stored(<<>>)
    /\ (favLast.op # "none" /\ favLast.full) => FavAsBefore
    /\ (trashLast.op # "none" /\ trashLast.full) => TrashAsBefore

\* a channel was added to favorites kept as text that is not JSON
C17_Witness ==
    /\ favLast.op = "add" /\ favLast.raw = "notjson" /\ ~favLast.full
    /\ favStorage.raw = "ok" /\ Len(favStorage.value) = 1
    /\ trashStorage.raw = "shape"

\* C18: channelSlug depends on the name alone; its result is never empty, is
\* made of a-z, 0-9 and "-", neither starts nor ends with "-", has no two "-"
\* in a row, and is "channel" for a missing or blank name and for a name
\* without a letter or digit; "Al Jazeera English" gives "al-jazeera-english",
\* two spaces give "channel", "Canal+" gives "canal".
HasLetterOrDigit(name) ==
    \E i \in DOMAIN name : name[i] \in Range(LowerChars) \cup Range(UpperChars) \cup Digits

C18_SlugWellFormed ==
    call.fn = "channelSlug" =>
        LET name == call.arg.name
            slug == call.result
        IN  /\ slug = channelSlug([name |-> name])
            /\ slug # <<>>
            /\ \A i \in DOMAIN slug : slug[i] \in Range(LowerChars) \cup Digits \cup {"-"}
            /\ slug[1] # "-"
            /\ slug[Len(slug)] # "-"
            /\ \A i \in 1..(Len(slug) - 1) : ~(slug[i] = "-" /\ slug[i + 1] = "-")
            /\ ~HasLetterOrDigit(name) => slug = StrChannel
            /\ name = StrAlJazeeraEnglish =>
                   slug = <<"a","l","-","j","a","z","e","e","r","a","-","e","n","g","l","i","s","h">>
            /\ name = <<" "," ">> => slug = StrChannel
            /\ name = StrCanalPlus => slug = <<"c","a","n","a","l">>

\* the slug of a name with a space, a dash and a sign between two letters
C18_Witness ==
    /\ call.fn = "channelSlug"
    /\ call.arg.name = <<"A"," ","-","b">>
    /\ call.arg.iso = StrFR
    /\ call.result = <<"a","-","b">>

\* C19: a channel whose url is missing or empty is appended to the merged feed
\* wherever it stands in a merged fragment: the url-less channels of the feed
\* before the trash filter are, in fetch order, exactly the url-less channels
\* of the fragments merged so far, as many as there were.
UrlLess(ch) == ch.url = <<>>

RECURSIVE UrlLessFetched(_)
UrlLessFetched(fetched) ==
    IF fetched = <<>> THEN <<>>
    ELSE LET f == fetched[Len(fetched)]
         IN  UrlLessFetched(SubSeq(fetched, 1, Len(fetched) - 1))
             \o (IF f.kind \in {"notok", "neterr", "badjson", "notiterable"} THEN <<>>
                 ELSE SelectSeq(f.channels, UrlLess))

C19_UrlLessAllKept ==
    \A id \in DOMAIN loads :
        SelectSeq(loads[id].allChannels, UrlLess) = UrlLessFetched(loads[id].fetched)

\* a finished load whose feed holds the same url-less channel twice, once from
\* each of two fragments, beside a channel that has a url
C19_Witness ==
    \E id \in DOMAIN loads :
        /\ loads[id].outcome = "list"
        /\ SelectSeq(loads[id].allChannels, UrlLess) = <<ChArte, ChArte>>
        /\ loads[id].fetched[1] = Ok(<<ChTF1, ChArte>>)
        /\ loads[id].fetched[2] = Ok(<<ChTF1HD, ChArte, ChB>>)
        /\ \E k \in DOMAIN loads[id].allChannels : loads[id].allChannels[k] = ChB

\* C20: a country load for which getChannelLoadCodes gives no code fetches
\* nothing and ends, outside the catch block and without running its callback,
\* with the loading indicator hidden and the empty state shown; a load all of
\* whose fragments are missing and a load all of whose channels are in the
\* trash end in the same way, and in the same page when no other load has
\* displayed a list in between.
EmptyShown == [loadingHidden |-> TRUE, emptyHidden |-> FALSE, listHidden |-> TRUE, list |-> <<>>]

NoCandidateCodes(l) == l.kind \in {"country", "territory", "unknown"} /\ getChannelLoadCodes(l.name) = <<>>

AllMissing(l) ==
    /\ l.paths # <<>>
    /\ Len(l.fetched) = Len(l.paths)
    /\ \A k \in DOMAIN l.fetched : l.fetched[k].kind = "notok"

AllInTrash(l) ==
    /\ Len(l.fetched) = Len(l.paths)
    /\ \A k \in DOMAIN l.fetched : l.fetched[k].kind \in {"ok", "notok"}
    /\ l.allChannels # <<>>
    /\ \A k \in DOMAIN l.allChannels :
           isChannelInTrash(toUpperCase(l.allChannels[k].iso), channelSlug(l.allChannels[k]))

EndsNow(id) ==
    /\ id \in DOMAIN loads => loads[id].status = "awaiting"
    /\ loads'[id].status = "done"

C20_NothingToShow ==
    [][\A id \in DOMAIN loads' :
          (EndsNow(id) /\ (NoCandidateCodes(loads'[id]) \/ AllMissing(loads'[id]) \/ AllInTrash(loads'[id]))) =>
              /\ loads'[id].outcome \in {"nocodes", "empty"}
              /\ ~loads'[id].cbRun
              /\ loads'[id].result = <<>>
              /\ dom'.loadingHidden
              /\ ~dom'.emptyHidden
              /\ NoCandidateCodes(loads'[id]) =>
                     /\ loads'[id].outcome = "nocodes"
                     /\ loads'[id].paths = <<>>
                     /\ loads'[id].fetched = <<>>
                     /\ dom' = EmptyShown
              /\ (id \in DOMAIN loads /\ dom.listHidden /\ dom.list = <<>>) => dom' = EmptyShown]_vars

\* a load for a path of the map without a code has ended, and after it a load
\* of a category none of whose fragments exists, both on the empty state
C20_Witness ==
    /\ Len(loads) = 2
    /\ loads[1].outcome = "nocodes"
    /\ loads[1].fetched = <<>>
    /\ loads[2].outcome = "empty"
    /\ AllMissing(loads[2])
    /\ dom = EmptyShown

\* C21: loading a feed, applying a deep link, opening and closing the player,
\* a playback failure and drawing the favorites never change the record under
\* the favorites key or the one under the trash key; a favorite that does not
\* resolve is drawn without a Play button, marked as no longer available, and
\* is still in the store.
C21_ReadersLeaveStores ==
    [][/\ favStorage' = favStorage
       /\ trashStorage' = trashStorage
       /\ call'.fn = "renderFavoritesList" =>
              LET flat == flattenFavoriteChannels(getFavorites)
              IN  /\ Len(call'.result) = Len(flat)
                  /\ \A k \in DOMAIN flat :
                         /\ call'.result[k].id = flat[k].id
                         /\ call'.result[k].warning = ~call'.result[k].play
                         /\ call'.result[k].warning <=>
                                ~\E m \in DOMAIN call'.arg :
                                    /\ toUpperCase(call'.arg[m].iso) = toUpperCase(flat[k].iso)
                                    /\ channelSlug(call'.arg[m]) = toLowerCase(flat[k].slug)]_vars

\* with a list loaded and a playback failed, the favorites were drawn from the
\* loaded catalog: TF1 with its Play button, the vanished channel with the
\* warning, both still stored
C21_Witness ==
    /\ call.fn = "renderFavoritesList"
    /\ call.arg # <<>>
    /\ call.result[1].play
    /\ call.result[2].warning
    /\ getFavorites = FrameFavorites
    /\ getTrash = FrameTrash
    /\ player.open /\ player.error
    /\ \E id \in DOMAIN loads : loads[id].outcome = "list"

\* C22: after the filters are applied a listed channel is visible iff (the
\* type filter is All or equals the channel's type) and (the source filter is
\* All or equals the channel's source name) and (the search text is empty or
\* is, without regard to case, a substring of the channel's name or of its
\* source name), for every channel, also one whose source name is longer than
\* 28 characters.  The type and the source name are taken trimmed, the type in
\* lower case with "tv" for a missing one, the search text trimmed.
C22_VisibleIffMatches ==
    call.fn = "applyChannelFilters" =>
        \A k \in DOMAIN call.arg.channels :
            LET ch == call.arg.channels[k]
                needle == toLowerCase(trim(call.arg.text))
            IN  call.result[k] <=>
                    /\ call.arg.type = <<>> \/ call.arg.type = trim(toLowerCase(Or(ch.type, StrTv)))
                    /\ call.arg.source = <<>> \/ call.arg.source = trim(ch.source_name)
                    /\ \/ needle = <<>>
                       \/ includes(toLowerCase(ch.name), needle)
                       \/ includes(toLowerCase(ch.source_name), needle)

\* the channels of the fragments a load asks for, code by code in the order the
\* codes are tried and, within a code, in the order iptv-org, free-tv-iptv,
\* iprd, famelack-channels, m3u-radio-music-playlists, insecam, windy
ArrivalSources ==
    <<"iptv-org", "free-tv-iptv", "iprd", "famelack-channels",
      "m3u-radio-music-playlists", "insecam", "windy">>
RECURSIVE ArrivalFrom(_, _, _, _)
ArrivalFrom(dir, codes, c, k) ==
    IF c > Len(codes) THEN <<>>
    ELSE IF k > Len(ArrivalSources) THEN ArrivalFrom(dir, codes, c + 1, 1)
    ELSE ListAt(<<dir, codes[c], ArrivalSources[k]>>) \o ArrivalFrom(dir, codes, c, k + 1)
ArrivalOrder(l) == ArrivalFrom(DirOf(l), CodesOf(l), 1, 1)

\* a is e with some of its members left out
RECURSIVE IsSubsequence(_, _)
IsSubsequence(a, e) ==
    IF a = <<>> THEN TRUE
    ELSE IF e = <<>> THEN FALSE
    ELSE IF Head(a) = Head(e) THEN IsSubsequence(Tail(a), Tail(e))
    ELSE IsSubsequence(a, Tail(e))

\* C23: the merged feed of a finished load lists the channels it kept in
\* fragment arrival order (code by code as the codes are tried, within a code
\* the sources in their fixed order, within a fragment the fragment's order),
\* the trash filter takes channels out without reordering the others, and the
\* rows of the load, as long as they are displayed, follow the same order.
C23_ArrivalOrder ==
    \A id \in DOMAIN loads :
        Finished(loads[id]) =>
            /\ IsSubsequence(loads[id].allChannels, ArrivalOrder(loads[id]))
            /\ IsSubsequence(loads[id].result, loads[id].allChannels)
            /\ LET rows == SelectSeq(dom.list, LAMBDA row : row.load = id)
               IN  rows = <<>> \/ [k \in DOMAIN rows |-> rows[k].ch] = loads[id].result

\* FR was loaded from the example server with TF1 in the trash: Arte of the
\* first source, then Arte and B of the second, then C found under FRA
C23_Witness ==
    \E id \in DOMAIN loads :
        /\ Finished(loads[id])
        /\ loads[id].name = StrFR
        /\ getTrash # <<>>
        /\ loads[id].allChannels = <<ChTF1, ChArte, ChArte, ChB, ChC>>
        /\ loads[id].result = <<ChArte, ChArte, ChB, ChC>>
        /\ [k \in DOMAIN dom.list |-> dom.list[k].ch] = loads[id].result

WithUrl(feed) == SelectSeq(feed, LAMBDA ch : ch.url # <<>>)
WithUrlTrimmed(feed) == SelectSeq(feed, LAMBDA ch : ~Blank(ch.url))

\* C24 as stated: merging fragments followed by the same fragments again gives
\* the same set of distinct urls and the same channels that have a url, in the
\* same order, as merging them once
C24_AsStated ==
    call.fn = "mergeFragments" =>
        /\ UrlsOf(call.result.twice.allChannels) = UrlsOf(call.result.once.allChannels)
        /\ WithUrl(call.result.twice.allChannels) = WithUrl(call.result.once.allChannels)

\* C24 (amended): merging a sequence of fragments followed by the same
\* fragments again yields the same set of seen urls, the same set of distinct
\* url strings in the feed, and the same channels whose url is not blank (not
\* empty after trimming white space), in the same order, as merging the
\* sequence once; the channels whose url is missing or blank appear twice as
\* often.
C24_MergeIdempotent ==
    call.fn = "mergeFragments" =>
        LET once == call.result.once
            twice == call.result.twice
        IN  /\ twice.seenUrls = once.seenUrls
            /\ UrlsOf(twice.allChannels) = UrlsOf(once.allChannels)
            /\ WithUrlTrimmed(twice.allChannels) = WithUrlTrimmed(once.allChannels)
            /\ Len(twice.allChannels) - Len(WithUrlTrimmed(twice.allChannels))
                   = 2 * (Len(once.allChannels) - Len(WithUrlTrimmed(once.allChannels)))

\* two fragments with a shared url, a channel without url and one with a
\* blank url were merged once and twice
C24_Witness ==
    /\ call.fn = "mergeFragments"
    /\ call.arg = <<<<ChTF1, ChArte>>, <<ChSpaceA, ChBlank, ChBlank>>>>
    /\ call.result.once.allChannels = <<ChTF1, ChArte, ChBlank, ChBlank>>
    /\ Len(call.result.twice.allChannels) = 7

\* the list of entries under a parent (0: the top level)
ListOf(items, parent) == IF parent = 0 THEN items ELSE NodeOf(items, parent).entry.children
ListIds(items, parent) == [k \in DOMAIN ListOf(items, parent) |-> ListOf(items, parent)[k].id]
FolderIds(items) == {id \in IdsOf(items) : NodeOf(items, id).entry.type = "folder"}

\* C25: when the neighbour of id in the flattened depth-first order sits in
\* the same parent list, moveUpDown(id, direction) exchanges the two entries
\* in that list, each entry whole with its subtree; every other entry keeps
\* its parent and its position; the forest is persisted and one change
\* notification is sent.
C25_MoveUpDownSwaps ==
    (/\ favLast.op = "moveUpDown"
     /\ HasNeighbour(favLast.before, favLast.id, favLast.dir)
     /\ NeighbourOf(favLast.before, favLast.id, favLast.dir).parent
            = NodeOf(favLast.before, favLast.id).parent)
    => LET before == favLast.before
           a == NodeOf(before, favLast.id)
           b == NeighbourOf(before, favLast.id, favLast.dir)
           was == ListOf(before, a.parent)
       IN  /\ favLast.notified
           /\ favStorage = Stored(getFavorites)
           /\ IdsOf(getFavorites) = IdsOf(before)
           /\ ListOf(getFavorites, a.parent)
                  = [k \in DOMAIN was |-> IF was[k].id = a.id THEN b.entry
                                          ELSE IF was[k].id = b.id THEN a.entry
                                          ELSE was[k]]
           /\ \A id \in IdsOf(before) :
                  /\ NodeOf(getFavorites, id).parent = NodeOf(before, id).parent
                  /\ id \notin a.anc => NodeOf(getFavorites, id).entry = NodeOf(before, id).entry
           /\ \A parent \in ({0} \cup FolderIds(before)) \ {a.parent} :
                  ListIds(getFavorites, parent) = ListIds(before, parent)

\* an entry was moved down past a folder that has a child, in the same list
C25_Witness ==
    /\ favLast.op = "moveUpDown"
    /\ favLast.dir = "down"
    /\ favLast.notified
    /\ HasNeighbour(favLast.before, favLast.id, favLast.dir)
    /\ NeighbourOf(favLast.before, favLast.id, favLast.dir).parent
           = NodeOf(favLast.before, favLast.id).parent
    /\ NeighbourOf(favLast.before, favLast.id, favLast.dir).entry.children # <<>>
    /\ getFavorites # favLast.before

\* two entries of a folder were exchanged
C25_WitnessNested ==
    /\ favLast.op = "moveUpDown"
    /\ favLast.dir = "up"
    /\ favLast.notified
    /\ favLast.id \in IdsOf(favLast.before)
    /\ NodeOf(favLast.before, favLast.id).parent # 0
    /\ getFavorites # favLast.before

\* the channels of a sequence of fragments, in arrival order
RECURSIVE Flatten(_)
Flatten(lists) == IF lists = <<>> THEN <<>> ELSE Head(lists) \o Flatten(Tail(lists))

\* C26 as stated: channels are duplicates only when their url strings are
\* exactly equal, so every distinct url string of the fragments, also one that
\* differs from another only by white space around it, is still in the merged
\* feed
C26_AsStated ==
    call.fn = "mergeFragments" =>
        UrlsOf(call.result.once.allChannels) = UrlsOf(Flatten(call.arg))

TrimmedUrlsOf(feed) == {trim(feed[k].url) : k \in DOMAIN feed}
WithTrimmedUrl(feed, url) == SelectSeq(feed, LAMBDA ch : trim(ch.url) = url)

\* C26 (amended): two channels count as duplicates when their url strings are
\* equal after white space is trimmed from both ends and the trimmed url is
\* not empty: of the channels sharing such a url only the first to arrive is
\* kept, with its url as written; channels whose trimmed urls differ are all
\* kept, and so is every channel whose trimmed url is empty.
C26_DuplicatesByTrimmedUrl ==
    call.fn = "mergeFragments" =>
        LET e == Flatten(call.arg)
            merged == call.result.once.allChannels
        IN  /\ TrimmedUrlsOf(merged) = TrimmedUrlsOf(e)
            /\ \A url \in TrimmedUrlsOf(e) :
                   IF url = <<>> THEN WithTrimmedUrl(merged, url) = WithTrimmedUrl(e, url)
                   ELSE WithTrimmedUrl(merged, url) = <<Head(WithTrimmedUrl(e, url))>>

\* a fragment with url "a" and one with url " a" were merged: the second
\* channel is gone, the two with a blank url stayed
C26_Witness ==
    /\ call.fn = "mergeFragments"
    /\ call.arg = <<<<ChTF1HD, ChArte, ChB>>, <<ChSpaceA, ChBlank, ChBlank>>>>
    /\ call.result.once.allChannels = <<ChTF1HD, ChArte, ChB, ChBlank, ChBlank>>

\* C27: a page opened with country=FRA, a three-letter code whose two-letter
\* form FR is a country of the map, applies the link on load: FR is selected
\* and a load of the channels of FR is started.
C27_Iso3DeepLinkApplied ==
    [][(/\ ~booted
        /\ booted'
        /\ toUpperCase(trim(search.country)) = StrFRA
        /\ Lookup(ISO3_TO_ISO2_FALLBACK, StrFRA) \in MapCountries)
       => /\ Len(loads') = Len(loads) + 1
          /\ loads'[Len(loads')].name = StrFR
          /\ selection'.kind = "country"
          /\ selection'.name = StrFR]_vars

\* C28: whenever at least one load has run and no load is awaiting a fetch,
\* the loading indicator is hidden, exactly one of the empty-state message and
\* the channel list is visible, and a visible list holds the rows of one load
\* only.
C28_SettledPane ==
    (/\ loads # <<>>
     /\ \A id \in DOMAIN loads : loads[id].status = "done")
    => /\ dom.loadingHidden
       /\ dom.emptyHidden # dom.listHidden
       /\ ~dom.listHidden => Cardinality({dom.list[k].load : k \in DOMAIN dom.list}) = 1

\* Play was pressed on the entry and no fetch is pending any more: nothing
\* further happens unless the user acts again
PlaySettled(id) ==
    /\ call.fn = "play"
    /\ call.arg.id = id
    /\ \A m \in DOMAIN loads : loads[m].status = "done"
\* the load that the press started handed its list to the callback, which
\* found a channel with the slug and opened the player on it
PlayOpenedOn(slug) ==
    /\ call.result # 0
    /\ loads[call.result].cbRun
    /\ loads[call.result].cbFound.found
    /\ channelSlug(loads[call.result].cbFound.ch) = toLowerCase(slug)

\* C29: for every favorite shown with a Play button, pressing Play eventually
\* opens the player on a channel with the slug of the favorite, every fetch
\* completing; also for a favorite that is in the trash and for one filed
\* under XX.  Once every fetch has completed the player has been opened.
C29_PlayOpensPlayer ==
    \A k \in DOMAIN PlayFavorites :
        PlaySettled(PlayFavorites[k].id) => PlayOpenedOn(PlayFavorites[k].slug)

\* the part of C29 that holds: Play on a favorite of a country drawn on the
\* map that is not in the trash has opened the player on it once every fetch
\* has completed
C29_MapFavoritePlays ==
    PlaySettled(1) => PlayOpenedOn(PlayFavorites[1].slug)

\* Play on TF1 has opened the player on TF1
C29_MapFavoriteWitness ==
    /\ PlaySettled(1)
    /\ player.open
    /\ player.ch = ChTF1

Opposite(dir) == IF dir = "up" THEN "down" ELSE "up"
HasChildren(n) == n.entry.type = "folder" /\ n.entry.children # <<>>
\* the sibling just before the entry in its parent list, if any
HasPrecedingSibling(items, id) ==
    /\ id \in IdsOf(items)
    /\ ListIds(items, NodeOf(items, id).parent)[1] # id
PrecedingSibling(items, id) ==
    LET ids == ListIds(items, NodeOf(items, id).parent)
    IN  NodeOf(items, ids[PosIn(ids, id) - 1])

\* C30: whenever moveUpDown(id, d) has changed the forest, the opposite move
\* on the same id restores the previous forest if and only if neither of the
\* two exchanged entries is a folder with children; an entry whose preceding
\* sibling is a folder with at least one child cannot be moved up, and a folder
\* with at least one child cannot be moved down: the forest stays as it was.
C30_MoveUpDownInverse ==
    favLast.op = "moveUpDown" =>
        /\ getFavorites # favLast.before =>
               LET a == NodeOf(favLast.before, favLast.id)
                   b == NeighbourOf(favLast.before, favLast.id, favLast.dir)
                   back == moveFavoriteUpDown(favLast.id, Opposite(favLast.dir))
               IN  (back.saved /\ back.items = favLast.before)
                       <=> (~HasChildren(a) /\ ~HasChildren(b))
        /\ (/\ favLast.dir = "up"
            /\ HasPrecedingSibling(favLast.before, favLast.id)
            /\ HasChildren(PrecedingSibling(favLast.before, favLast.id)))
           => Unchanged
        /\ (/\ favLast.dir = "down"
            /\ favLast.id \in IdsOf(favLast.before)
            /\ HasChildren(NodeOf(favLast.before, favLast.id)))
           => Unchanged

\* a folder with a child was moved up past a channel; moving it down again does nothing
C30_Witness ==
    /\ favLast.op = "moveUpDown"
    /\ favLast.dir = "up"
    /\ getFavorites # favLast.before
    /\ HasChildren(NodeOf(favLast.before, favLast.id))
    /\ ~moveFavoriteUpDown(favLast.id, "down").saved

\* two channels were exchanged, and the opposite move puts them back
C30_WitnessRestored ==
    /\ favLast.op = "moveUpDown"
    /\ getFavorites # favLast.before
    /\ moveFavoriteUpDown(favLast.id, Opposite(favLast.dir)) = Saved(favLast.before)

\* an entry below a folder with a child was asked to move up
C30_WitnessBlocked ==
    /\ favLast.op = "moveUpDown"
    /\ favLast.dir = "up"
    /\ HasPrecedingSibling(favLast.before, favLast.id)
    /\ HasChildren(PrecedingSibling(favLast.before, favLast.id))

====
